---------------------------- MODULE Spec2Model ----------------------------
(***************************************************************************)
(* A model of the proposal-generation tools of the AVA/Kinetics pipeline:  *)
(*                                                                         *)
(*   tools/keyframe_selector.py         KeyframeSelector                   *)
(*   tools/create_proposals_from_tracks.py  generate_proposals_from_tracks *)
(*   tools/person_tracker.py            PersonTracker and its tracker      *)
(*   orchestrator.py                    run_pipeline                       *)
(*   tools/proposals_to_cvat.py         generate_xml_for_batch             *)
(*   services/assignment_generator.py   AssignmentGenerator                *)
(*   services/cvat_integration.py       CVATClient                         *)
(*   metrics_logging/metrics_logger.py  log_metric                         *)
(*                                                                         *)
(* Each tool is a state machine of its own (SpecKeyframe, SpecMotion,      *)
(* SpecAggregator, SpecTracker, SpecScenario, SpecWatch, SpecPipeline,     *)
(* SpecAssignment, SpecMetrics, SpecBatch, SpecUpload, SpecNaming); the    *)
(* variables of the other tools stay at their initial values while one     *)
(* tool runs.                                                              *)
(*                                                                         *)
(* Numbers.  Scores are exact reals.  A detector confidence and a flow     *)
(* magnitude are whole multiples of 1/ScoreUnit.  A z-score is kept as the *)
(* pair [num, rad] that stands for num / sqrt(rad); [0, 1] is 0 and        *)
(* [0, 0] is NaN (0/0).  Comparisons of sums of such values are decided    *)
(* exactly with integer arithmetic.                                        *)
(***************************************************************************)
EXTENDS Integers, Sequences, FiniteSets, TLC

VARIABLES
    \* ---- KeyframeSelector.select_best_keyframe
    kf_pc,                 \* "start", "reading", "done"
    opened,                \* cap.isOpened()
    total_frames,          \* int(cap.get(CAP_PROP_FRAME_COUNT))
    fps,                   \* cap.get(CAP_PROP_FPS)
    center_window_secs,    \* parameter
    candidate_stride,      \* parameter
    candidate_indices,     \* np.array(range(start_frame, end_frame, stride))
    read_pos,              \* position of the read loop in candidate_indices
    candidate_frames_rgb,  \* frames read; a frame is named by its video index
    all_detections,        \* detector output of every frame read
    kf_scores,             \* the score vectors of the call
    kf_result,             \* what the call gave back
    \* ---- motion score of one frame (lines 89-104 of keyframe_selector.py)
    mo_pc,                 \* "detect", "done"
    mo_has_prev,           \* prev_gray is not None
    mo_mag,                \* flow magnitude of every pixel of the strip
    mo_dets,               \* detections of the frame
    motion_score,          \* the frame's motion score
    \* ---- generate_proposals_from_tracks
    ag_pc,                 \* "start", "files", "records", "returned", "raised"
    ag_nfiles,             \* len(json_files)
    ag_file,               \* number of the file being processed
    ag_input,              \* everything met so far, in order
    results_dict,          \* <<video_id, frame_name>> -> list of proposals
    ag_log,                \* what the logger received
    ag_pickle,             \* the table written to output_path, <<>> when none
    ag_run,                \* 1 in the first call, 2 in a second call on the same input
    ag_replay,             \* what the first call met, for the second call
    ag_first,              \* table and output of the first call
    \* ---- PersonTracker and its tracker (person_tracker.py)
    tk_pc,                 \* "idle", "run"
    tk_conf,               \* PersonTracker.conf, in hundredths
    tk_tracks,             \* the tracks of the tracker, in order of creation
    tk_next_id,            \* the tracker's track-id counter
    tk_frames,             \* frames processed so far
    tk_last,               \* what the last frame did (detections, matches, ...)
    tk_history,            \* the detector outputs so far (kept in short runs)
    tk_out,                \* online_tracks of the last frame
    \* ---- run_pipeline (orchestrator.py)
    pl_pc,                 \* "idle", "start", "stages", "tracking", "cleanup",
                           \* "returned", "raised"
    pl_s3,                 \* s3_bucket is not empty
    pl_stage,              \* stages completed (pbar.update calls)
    pl_clips,              \* all_clips_to_process, by clip stem
    pl_clip,               \* clips the loop of stage 4 has taken
    pl_trackers,           \* the PersonTracker objects constructed, in order
    pl_exc,                \* the exception leaving the try block, "none" if none
    pl_work_dir,           \* temp_processing exists
    pl_log,                \* what the logger received in stage 10
    \* ---- AssignmentGenerator.select_annotators_for_batch
    as_pc,                 \* "idle", "start", "returned", "raised"
    as_all,                \* all_annotators
    as_required,           \* num_required
    as_positions,          \* the positions of all_annotators that were sampled
    as_selected,           \* selected_annotators
    \* ---- log_metric (metrics_logger.py)
    ml_now,                \* _now(), in whole seconds
    ml_calls,              \* calls of log_metric so far
    ml_seen,               \* _seen_events
    ml_file,               \* the records of the metrics file, in order
    ml_log,                \* what the logger received
    \* ---- CVATClient.create_batch_task_with_multiple_jobs
    cv_pc,                 \* "idle", "start", "upload", "import", "jobs", "first",
                           \* "loop", "returned", "raised"
    cv_annotators,         \* annotators
    cv_requests,           \* the requests sent to the server, in order
    cv_failed,             \* the step that made the call give up, "none" if none
    cv_import_ok,          \* what import_annotations returned
    cv_first_job,          \* first_job['id'], 0 before the jobs are listed
    cv_jobs,               \* the jobs of the task on the server
    cv_acks,               \* the pairs <<job, user id>> the server answered 200 for
    cv_outcomes,           \* per annotator taken: user found, job made, assigned
    cv_assigned,           \* assigned_jobs
    cv_result,             \* "pending", "None", "dict"
    \* ---- CVATClient.upload_data_to_task
    up_pc,                 \* "idle", "start", "poll", "sleep", "returned"
    up_statuses,           \* the last statuses polled, oldest first
    up_result,             \* "pending", "True", "False"
    \* ---- a keyframe from PersonTracker to generate_xml_for_batch
    xm_pc,                 \* "idle", "start", "tracked", "aggregated", "written"
    xm_video_id,           \* PersonTracker.video_id, a string of characters
    xm_frame_idx,          \* middle_frame_idx
    xm_tracks,             \* online_tracks of the frame
    xm_records,            \* the records of the frame's JSON file
    xm_table,              \* the proposal table
    xm_clip_id,            \* clip_id derived from the frame name
    xm_boxes               \* the boxes written for the image

kfVars == <<kf_pc, opened, total_frames, fps, center_window_secs, candidate_stride,
            candidate_indices, read_pos, candidate_frames_rgb, all_detections,
            kf_scores, kf_result>>
moVars == <<mo_pc, mo_has_prev, mo_mag, mo_dets, motion_score>>
agVars == <<ag_pc, ag_nfiles, ag_file, ag_input, results_dict, ag_log,
            ag_pickle, ag_run, ag_replay, ag_first>>
tkVars == <<tk_pc, tk_conf, tk_tracks, tk_next_id, tk_frames, tk_last,
            tk_history, tk_out>>
plVars == <<pl_pc, pl_s3, pl_stage, pl_clips, pl_clip, pl_trackers, pl_exc,
            pl_work_dir, pl_log>>
asVars == <<as_pc, as_all, as_required, as_positions, as_selected>>
toolVars == <<kfVars, moVars, agVars, tkVars, plVars>>
mlVars == <<ml_now, ml_calls, ml_seen, ml_file, ml_log>>
cvVars == <<cv_pc, cv_annotators, cv_requests, cv_failed, cv_import_ok,
            cv_first_job, cv_jobs, cv_acks, cv_outcomes, cv_assigned, cv_result>>
upVars == <<up_pc, up_statuses, up_result>>
xmVars == <<xm_pc, xm_video_id, xm_frame_idx, xm_tracks, xm_records, xm_table,
            xm_clip_id, xm_boxes>>
svcVars == <<asVars, mlVars, cvVars, upVars, xmVars>>
AsRest == <<mlVars, cvVars, upVars, xmVars>>
MlRest == <<asVars, cvVars, upVars, xmVars>>
CvRest == <<asVars, mlVars, upVars, xmVars>>
UpRest == <<asVars, mlVars, cvVars, xmVars>>
XmRest == <<asVars, mlVars, cvVars, upVars>>
vars == <<toolVars, svcVars>>

----------------------------------------------------------------------------
(* Bounds of the model. *)

MaxFrames == 4
MaxStride == 2
MaxBoxes == 2
ImgW == 3

MaxFiles == 2

MaxRecords == 2

MaxTicks == 3

MaxTrackIds == 2

\* clips that stage 3 leaves for stage 4
MaxClips == 2

\* available annotators, and annotators asked for
MaxAnnotators == 3
MaxRequired == 3

\* seconds on the clock of log_metric, and calls of it
MaxTime == 6
MaxCalls == 3

\* statuses of the upload request that are remembered
MaxPolls == 3

\* characters of a video id
MaxIdLen == 2

(* Program constants. *)

PersonClassId == 1
DefaultFps == 30
StdEpsInv == 1000000
TieEpsInv == 1000000
WMotion == 7
WConfidence == 3

(* Confidences and flow magnitudes are multiples of 1/ScoreUnit. *)
ScoreUnit == 10

FpsValues == {0, 1, 2}
WindowSecs == {0, 1, 2, 4}

Max(a, b) == IF a >= b THEN a ELSE b
Min(a, b) == IF a <= b THEN a ELSE b
Abs(a) == IF a >= 0 THEN a ELSE -a

RECURSIVE SumSeq(_)
SumSeq(s) == IF s = <<>> THEN 0 ELSE s[1] + SumSeq(Tail(s))

\* The subsequence of s at the positions that satisfy keep, in order
\* (numpy's boolean-mask indexing).
RECURSIVE Masked(_, _)
Masked(s, mask) ==
    IF s = <<>> THEN <<>>
    ELSE (IF mask[1] THEN <<s[1]>> ELSE <<>>) \o Masked(Tail(s), Tail(mask))

\* The least c with c * c >= a.
CeilSqrt(a) == CHOOSE c \in 0..a : c * c >= a /\ \A d \in 0..(c - 1) : d * d < a

----------------------------------------------------------------------------
(* Detections (the detector is external: every detection has a box, a     *)
(* confidence and a class id).  box_mag is the mean flow magnitude inside  *)
(* the box against the preceding frame read, NoPixels when the box holds   *)
(* no pixel.                                                               *)

NoPixels == -1

Det(c, conf, box, m) == [class_id |-> c, confidence |-> conf, bbox |-> box, box_mag |-> m]

DetOutputs ==
    { <<>>,
      << Det(1, 9, <<0, 0, 2, 1>>, 0) >>,
      << Det(1, 5, <<0, 0, 2, 1>>, 3) >>,
      << Det(1, 9, <<2, 0, 2, 1>>, NoPixels) >>,
      << Det(0, 9, <<1, 0, 3, 1>>, 6), Det(1, 5, <<0, 0, 2, 1>>, 0) >>,
      << Det(1, 5, <<0, 0, 2, 1>>, 3), Det(0, 9, <<1, 0, 3, 1>>, 0),
         Det(1, 9, <<1, 0, 3, 1>>, 3) >> }

\* person_mask = (dets.class_id == self.person_class_id)
PersonMask(dets) == [i \in DOMAIN dets |-> dets[i].class_id = PersonClassId]

PersonDets(dets) == Masked(dets, PersonMask(dets))

\* dets.confidence[person_mask].sum() if person_mask.any() else 0
ConfidenceScore(dets) ==
    SumSeq([i \in DOMAIN PersonDets(dets) |-> PersonDets(dets)[i].confidence])

\* if box_mag.size > 0: motion_score += box_mag.mean()
AddBoxMotion(score, box_mag) == IF box_mag # NoPixels THEN score + box_mag ELSE score

RECURSIVE SumBoxMotion(_, _)
SumBoxMotion(score, boxes) ==
    IF boxes = <<>> THEN score
    ELSE SumBoxMotion(AddBoxMotion(score, boxes[1].box_mag), Tail(boxes))

\* motion_score of a frame: 0 without a preceding frame, else the loop over
\* the person boxes.
MotionScore(dets, has_prev) ==
    IF has_prev THEN SumBoxMotion(0, PersonDets(dets)) ELSE 0

ConfidenceScores(dets_list) ==
    [i \in DOMAIN dets_list |-> ConfidenceScore(dets_list[i])]

MotionScores(dets_list) ==
    [i \in DOMAIN dets_list |-> MotionScore(dets_list[i], i > 1)]

----------------------------------------------------------------------------
(* _z_normalize.  With n scores x (multiples of 1/ScoreUnit), sum S and    *)
(* D = n * sum(x^2) - S^2:  mean = S/n,  std = sqrt(D)/n  and               *)
(* (x - mean)/std = (n*x - S)/sqrt(D).                                      *)

Spread(scores) ==
    Len(scores) * SumSeq([i \in DOMAIN scores |-> scores[i] * scores[i]])
        - SumSeq(scores) * SumSeq(scores)

\* std < 1e-6, that is D * StdEpsInv^2 < (n * ScoreUnit)^2, in whole numbers.
StdBelowEps(scores) ==
    LET m == Len(scores) * ScoreUnit
    IN  Spread(scores) <= (((m * m) - 1) \div StdEpsInv) \div StdEpsInv

ZeroScore == [num |-> 0, rad |-> 1]

\* (faulty variant) no test of the standard deviation: always divides
ZNormalizeNoGuard(scores) ==
    [i \in DOMAIN scores |->
        [num |-> Len(scores) * scores[i] - SumSeq(scores),
         rad |-> Spread(scores)]]

ZNormalize(scores) ==
    IF StdBelowEps(scores)
    THEN [i \in DOMAIN scores |-> ZeroScore]
    ELSE [i \in DOMAIN scores |->
             [num |-> Len(scores) * scores[i] - SumSeq(scores),
              rad |-> Spread(scores)]]

----------------------------------------------------------------------------
(* Final scores.  A final score is [m, c, tie]: the value                  *)
(*   (WMotion * m + WConfidence * c) / WeightDen + (tie / total) / TieEpsInv *)
(* with m and c z-scores and tie / total the tie-break score.              *)

WeightDen == WMotion + WConfidence

MiddleFrame(total) == total \div 2

\* (faulty variant) the distance is taken from frame 0, not from the middle frame
TieBreakerFromStart(idx, total) == total - 2 * idx

\* tie_breaker_scores = 1.0 - distance_from_middle / (total_frames / 2),
\* as the numerator of a fraction over total_frames.
TieBreaker(idx, total) == total - 2 * Abs(idx - MiddleFrame(total))

\* The sign of p / sqrt(a) + q / sqrt(b), for a, b >= 1.
SurdSign(p, a, q, b) ==
    IF p >= 0 /\ q >= 0 THEN (IF p = 0 /\ q = 0 THEN 0 ELSE 1)
    ELSE IF p <= 0 /\ q <= 0 THEN -1
    ELSE IF p * p * b = q * q * a THEN 0
    ELSE IF p > 0 THEN (IF p * p * b > q * q * a THEN 1 ELSE -1)
    ELSE (IF q * q * a > p * p * b THEN 1 ELSE -1)

\* Whole numbers gn, gd with |p / sqrt(a) + q / sqrt(b)| >= gn / gd whenever
\* the sum is not 0:  of the same sign, the sum is at least 1 / sqrt(a * b);
\* of opposite signs it is |p*p*b - q*q*a| / ((|p|sqrt(b) + |q|sqrt(a)) sqrt(a*b)).
GapNum(p, a, q, b) ==
    IF p * q >= 0 THEN 1 ELSE Abs(p * p * b - q * q * a)

GapDen(p, a, q, b) ==
    IF p * q >= 0 THEN CeilSqrt(a) * CeilSqrt(b)
    ELSE (Abs(p) * CeilSqrt(b) + Abs(q) * CeilSqrt(a)) * CeilSqrt(a) * CeilSqrt(b)

CombinedP(x, y) == WMotion * (x.m.num - y.m.num)
CombinedQ(x, y) == WConfidence * (x.c.num - y.c.num)

\* The sign of combined(x) - combined(y).
CombinedSign(x, y) ==
    SurdSign(CombinedP(x, y), x.m.rad, CombinedQ(x, y), x.c.rad)

\* |combined(x) - combined(y)| > |tie(x) - tie(y)| / (total * TieEpsInv), for
\* combined scores that differ: it holds when the lower bound
\* gn / (WeightDen * gd) of the left side exceeds the right side.
GapAboveTie(x, y, total) ==
    total * TieEpsInv >
        (WeightDen * GapDen(CombinedP(x, y), x.m.rad, CombinedQ(x, y), x.c.rad)
            * Abs(x.tie - y.tie))
        \div GapNum(CombinedP(x, y), x.m.rad, CombinedQ(x, y), x.c.rad)

\* final(x) > final(y)
FinalGreater(x, y, total) ==
    LET s == CombinedSign(x, y)
    IN  IF s = 0 THEN x.tie > y.tie
        ELSE IF s = 1 THEN x.tie >= y.tie \/ GapAboveTie(x, y, total)
        ELSE x.tie > y.tie /\ ~GapAboveTie(x, y, total)

\* numpy broadcasting of shapes (k,) and (n,)
BroadcastOk(k, n) == k = n \/ k = 1 \/ n = 1
BroadcastLen(k, n) == IF k = 1 THEN n ELSE k

\* combined_scores = w_motion * norm_motion + w_confidence * norm_conf
CombinedScores(norm_motion, norm_conf) ==
    [i \in DOMAIN norm_motion |-> [m |-> norm_motion[i], c |-> norm_conf[i]]]

\* final_scores = combined_scores + tie_breaker_scores * 1e-6
FinalScores(combined, indices, total) ==
    [i \in 1..BroadcastLen(Len(combined), Len(indices)) |->
        [m   |-> combined[IF Len(combined) = 1 THEN 1 ELSE i].m,
         c   |-> combined[IF Len(combined) = 1 THEN 1 ELSE i].c,
         tie |-> TieBreaker(indices[IF Len(indices) = 1 THEN 1 ELSE i], total)]]

\* np.argmax: the first position that holds the maximum
ArgMax(final, total) ==
    CHOOSE i \in DOMAIN final :
        /\ \A j \in DOMAIN final : ~FinalGreater(final[j], final[i], total)
        /\ \A j \in 1..(i - 1) : FinalGreater(final[i], final[j], total)

\* final_detections: {"track_id": i + 1, "bbox": ...} over the person boxes
FinalDetections(dets) ==
    [i \in DOMAIN PersonDets(dets) |->
        [track_id |-> i, bbox |-> PersonDets(dets)[i].bbox]]

----------------------------------------------------------------------------
(* The candidate window, lines 49-58. *)

\* (faulty variant) no fallback for an fps of 0
EffectiveFpsNoFallback(f) == f

\* if fps == 0: fps = 30
EffectiveFps(f) == IF f = 0 THEN DefaultFps ELSE f

\* int(center_window_secs / 2 * fps)
WindowHalfFrames(secs, f) == (secs * EffectiveFps(f)) \div 2

StartFrame(total, secs, f) == Max(0, MiddleFrame(total) - WindowHalfFrames(secs, f))

EndFrame(total, secs, f) == Min(total, MiddleFrame(total) + WindowHalfFrames(secs, f))

\* range(start, end, stride), stride >= 1
Range(start, end, stride) ==
    [i \in 1..(IF end <= start THEN 0 ELSE (end - start + stride - 1) \div stride)
        |-> start + (i - 1) * stride]

CandidateIndices(total, secs, f, stride) ==
    Range(StartFrame(total, secs, f), EndFrame(total, secs, f), stride)

----------------------------------------------------------------------------
(* What a call gives back: None, a tuple, or an exception that leaves it.  *)

NoScores == [confidence_scores |-> <<>>, motion_scores |-> <<>>,
             norm_conf |-> <<>>, norm_motion |-> <<>>, final_scores |-> <<>>]

Pending == [kind |-> "pending", image |-> -1, index |-> -1, best_idx |-> 0,
            detections |-> <<>>]
ReturnNone == [kind |-> "none", image |-> -1, index |-> -1, best_idx |-> 0,
               detections |-> <<>>]
Raise(what) == [kind |-> what, image |-> -1, index |-> -1, best_idx |-> 0,
                detections |-> <<>>]
ReturnBest(image, index, best, dets) ==
    [kind |-> "tuple", image |-> image, index |-> index, best_idx |-> best,
     detections |-> dets]

\* Lines 77-114: the score vectors of the frames read.
Scores(indices, dets_list, total) ==
    LET conf   == ConfidenceScores(dets_list)
        motion == MotionScores(dets_list)
        nc     == ZNormalize(conf)
        nm     == ZNormalize(motion)
    IN  [confidence_scores |-> conf, motion_scores |-> motion,
         norm_conf |-> nc, norm_motion |-> nm,
         final_scores |->
            IF BroadcastOk(Len(nc), Len(indices))
            THEN FinalScores(CombinedScores(nm, nc), indices, total)
            ELSE <<>>]

\* Lines 106-139: the result when the score vectors exist.
SelectScored(indices, frames, dets_list, total) ==
    IF ~BroadcastOk(Len(frames), Len(indices))
    THEN Raise("ValueError")                                          \* line 114
    ELSE LET final == Scores(indices, dets_list, total).final_scores
         IN  IF Len(final) = 0 THEN ReturnNone                        \* line 116
             ELSE LET best == ArgMax(final, total)
                  IN  IF best > Len(frames) THEN Raise("IndexError")  \* line 128
                      ELSE ReturnBest(frames[best], indices[best], best,
                                      FinalDetections(dets_list[best]))

\* (faulty variant) no test for an empty list of frames before scoring
SelectBestNoEmptyCheck(indices, frames, dets_list, total) ==
    SelectScored(indices, frames, dets_list, total)

\* Lines 75-139: the result, once the read loop is over.
SelectBest(indices, frames, dets_list, total) ==
    IF frames = <<>> THEN ReturnNone                                  \* line 75
    ELSE SelectScored(indices, frames, dets_list, total)

----------------------------------------------------------------------------
(* select_best_keyframe as a state machine. *)

KfInit ==
    /\ kf_pc = "start"
    /\ center_window_secs \in WindowSecs
    /\ candidate_stride \in 1..MaxStride
    /\ opened = FALSE
    /\ total_frames = 0
    /\ fps = 0
    /\ candidate_indices = <<>>
    /\ read_pos = 1
    /\ candidate_frames_rgb = <<>>
    /\ all_detections = <<>>
    /\ kf_scores = NoScores
    /\ kf_result = Pending

KfIdle ==
    /\ kf_pc = "idle"
    /\ center_window_secs = 0
    /\ candidate_stride = 1
    /\ opened = FALSE
    /\ total_frames = 0
    /\ fps = 0
    /\ candidate_indices = <<>>
    /\ read_pos = 1
    /\ candidate_frames_rgb = <<>>
    /\ all_detections = <<>>
    /\ kf_scores = NoScores
    /\ kf_result = Pending

MoIdle ==
    /\ mo_pc = "idle"
    /\ mo_has_prev = FALSE
    /\ mo_mag = <<>>
    /\ mo_dets = <<>>
    /\ motion_score = 0

AgIdle ==
    /\ ag_pc = "idle"
    /\ ag_nfiles = 0
    /\ ag_file = 0
    /\ ag_input = <<>>
    /\ results_dict = <<>>
    /\ ag_log = <<>>
    /\ ag_pickle = <<>>
    /\ ag_run = 1
    /\ ag_replay = <<>>
    /\ ag_first = <<>>

NoFrame ==
    [raw |-> <<>>, dets |-> <<>>, before |-> <<>>, matches |-> {},
     first |-> {}, unmatched_tracks |-> {}, unmatched_dets |-> {}]

TkIdle ==
    /\ tk_pc = "idle"
    /\ tk_conf = 0
    /\ tk_tracks = <<>>
    /\ tk_next_id = 1
    /\ tk_frames = 0
    /\ tk_last = NoFrame
    /\ tk_history = <<>>
    /\ tk_out = <<>>

PlIdle ==
    /\ pl_pc = "idle"
    /\ pl_s3 = FALSE
    /\ pl_stage = 0
    /\ pl_clips = <<>>
    /\ pl_clip = 0
    /\ pl_trackers = <<>>
    /\ pl_exc = "none"
    /\ pl_work_dir = FALSE
    /\ pl_log = <<>>

AsIdle ==
    /\ as_pc = "idle"
    /\ as_all = <<>>
    /\ as_required = 0
    /\ as_positions = <<>>
    /\ as_selected = <<>>

ToolsIdle == KfIdle /\ MoIdle /\ AgIdle /\ TkIdle /\ PlIdle

MlIdle ==
    /\ ml_now = 0
    /\ ml_calls = 0
    /\ ml_seen = {}
    /\ ml_file = <<>>
    /\ ml_log = <<>>

CvIdle ==
    /\ cv_pc = "idle"
    /\ cv_annotators = <<>>
    /\ cv_requests = <<>>
    /\ cv_failed = "none"
    /\ cv_import_ok = TRUE
    /\ cv_first_job = 0
    /\ cv_jobs = {}
    /\ cv_acks = {}
    /\ cv_outcomes = <<>>
    /\ cv_assigned = <<>>
    /\ cv_result = "pending"

UpIdle ==
    /\ up_pc = "idle"
    /\ up_statuses = <<>>
    /\ up_result = "pending"

XmIdle ==
    /\ xm_pc = "idle"
    /\ xm_video_id = <<>>
    /\ xm_frame_idx = 0
    /\ xm_tracks = <<>>
    /\ xm_records = <<>>
    /\ xm_table = <<>>
    /\ xm_clip_id = <<>>
    /\ xm_boxes = <<>>

SvcIdle == AsIdle /\ MlIdle /\ CvIdle /\ UpIdle /\ XmIdle

\* Lines 44-47: the video cannot be opened.
KfOpenFails ==
    /\ kf_pc = "start"
    /\ opened' = FALSE
    /\ kf_result' = ReturnNone
    /\ kf_pc' = "done"
    /\ UNCHANGED <<total_frames, fps, center_window_secs, candidate_stride,
                   candidate_indices, read_pos, candidate_frames_rgb,
                   all_detections, kf_scores>>
    /\ UNCHANGED <<moVars, agVars, tkVars, plVars, svcVars>>

\* Lines 44-62: the video opens; the window and its candidates.
KfOpen ==
    /\ kf_pc = "start"
    /\ \E t \in 0..MaxFrames, f \in FpsValues :
          /\ opened' = TRUE
          /\ total_frames' = t
          /\ fps' = f
          /\ candidate_indices' =
                CandidateIndices(t, center_window_secs, f, candidate_stride)
    /\ IF candidate_indices' = <<>>
       THEN kf_result' = ReturnNone /\ kf_pc' = "done"
       ELSE kf_result' = kf_result /\ kf_pc' = "reading"
    /\ UNCHANGED <<center_window_secs, candidate_stride, read_pos,
                   candidate_frames_rgb, all_detections, kf_scores>>
    /\ UNCHANGED <<moVars, agVars, tkVars, plVars, svcVars>>

\* Lines 65-72: one turn of the read loop.
KfReadFrame ==
    /\ kf_pc = "reading"
    /\ read_pos <= Len(candidate_indices)
    /\ \E ret \in BOOLEAN :
          IF ret
          THEN \E dets \in DetOutputs :
                  /\ candidate_frames_rgb' =
                        Append(candidate_frames_rgb, candidate_indices[read_pos])
                  /\ all_detections' = Append(all_detections, dets)
          ELSE UNCHANGED <<candidate_frames_rgb, all_detections>>
    /\ read_pos' = read_pos + 1
    /\ UNCHANGED <<kf_pc, opened, total_frames, fps, center_window_secs,
                   candidate_stride, candidate_indices, kf_scores, kf_result>>
    /\ UNCHANGED <<moVars, agVars, tkVars, plVars, svcVars>>

\* Lines 73-139: scoring and selection.
KfSelect ==
    /\ kf_pc = "reading"
    /\ read_pos > Len(candidate_indices)
    /\ kf_scores' =
          IF candidate_frames_rgb = <<>> THEN NoScores
          ELSE Scores(candidate_indices, all_detections, total_frames)
    /\ kf_result' = SelectBest(candidate_indices, candidate_frames_rgb,
                               all_detections, total_frames)
    /\ kf_pc' = "done"
    /\ UNCHANGED <<opened, total_frames, fps, center_window_secs, candidate_stride,
                   candidate_indices, read_pos, candidate_frames_rgb,
                   all_detections>>
    /\ UNCHANGED <<moVars, agVars, tkVars, plVars, svcVars>>

KfNext == KfOpenFails \/ KfOpen \/ KfReadFrame \/ KfSelect

KeyframeInit == KfInit /\ MoIdle /\ AgIdle /\ TkIdle /\ PlIdle /\ SvcIdle

SpecKeyframe == KeyframeInit /\ [][KfNext]_vars

----------------------------------------------------------------------------
(* The motion score of one frame, lines 89-104, on a strip of ImgW pixels  *)
(* (one pixel high).  The flow magnitude of a pixel is a multiple of       *)
(* MagStep = ImgW!, so that the mean over any box is a whole number.       *)

RECURSIVE Factorial(_)
Factorial(n) == IF n <= 1 THEN 1 ELSE n * Factorial(n - 1)

MagStep == Factorial(ImgW)

MagValues == {0, MagStep}

RECURSIVE SumOver(_, _)
SumOver(f, set) ==
    IF set = {} THEN 0
    ELSE LET x == CHOOSE y \in set : TRUE
         IN  f[x] + SumOver(f, set \ {x})

\* The pixels of mag[y1:y2, x1:x2]; pixel x of the strip is mag[x + 1].
BoxPixels(bbox) ==
    IF bbox[2] <= 0 /\ 0 < bbox[4]
    THEN {x \in 1..ImgW : bbox[1] <= x - 1 /\ x - 1 < bbox[3]}
    ELSE {}

\* (faulty variant) the sum of the magnitudes in the box, not their mean
BoxTotal(mag, bbox) ==
    IF BoxPixels(bbox) = {} THEN NoPixels
    ELSE SumOver(mag, BoxPixels(bbox))

\* box_mag.mean(), NoPixels when box_mag.size == 0
BoxMean(mag, bbox) ==
    IF BoxPixels(bbox) = {} THEN NoPixels
    ELSE SumOver(mag, BoxPixels(bbox)) \div Cardinality(BoxPixels(bbox))

\* The detections of the frame with the mean flow magnitude of their boxes.
WithBoxMag(dets, mag) ==
    [i \in DOMAIN dets |->
        Det(dets[i].class_id, dets[i].confidence, dets[i].bbox,
            BoxMean(mag, dets[i].bbox))]

MoInit ==
    /\ mo_pc = "detect"
    /\ mo_has_prev \in BOOLEAN
    /\ mo_mag \in [1..ImgW -> MagValues]
    /\ mo_dets = <<>>
    /\ motion_score = 0

\* One more detection of the frame (line 71).
MoDetect ==
    /\ mo_pc = "detect"
    /\ Len(mo_dets) < MaxBoxes
    /\ \E c \in {0, PersonClassId}, x1 \in 0..ImgW, x2 \in 0..ImgW :
          /\ x1 <= x2
          /\ mo_dets' = Append(mo_dets, Det(c, 9, <<x1, 0, x2, 1>>, NoPixels))
    /\ UNCHANGED <<mo_pc, mo_has_prev, mo_mag, motion_score>>
    /\ UNCHANGED <<kfVars, agVars, tkVars, plVars, svcVars>>

\* Lines 90-103: the motion score of the frame.
MoScore ==
    /\ mo_pc = "detect"
    /\ motion_score' = MotionScore(WithBoxMag(mo_dets, mo_mag), mo_has_prev)
    /\ mo_pc' = "done"
    /\ UNCHANGED <<mo_has_prev, mo_mag, mo_dets>>
    /\ UNCHANGED <<kfVars, agVars, tkVars, plVars, svcVars>>

MoNext == MoDetect \/ MoScore

MotionInit == KfIdle /\ MoInit /\ AgIdle /\ TkIdle /\ PlIdle /\ SvcIdle

SpecMotion == MotionInit /\ [][MoNext]_vars

----------------------------------------------------------------------------
(* generate_proposals_from_tracks (create_proposals_from_tracks.py).        *)
(* A value that det.get() returns is a sequence: <<>> for None (the key is  *)
(* missing), <<v>> for the value v.                                         *)

None == <<>>

Some(v) == <<v>>

Record(video_id, frame, bbox, track_id) ==
    [video_id |-> video_id, frame |-> frame, bbox |-> bbox,
     track_id |-> track_id]

\* The detection records a tracking file may hold.
Records ==
    { Record(Some("v1"), Some("f1"), Some(<<1, 2, 3, 4>>), Some(1)),
      Record(Some("v1"), Some("f1"), Some(<<5, 6, 7, 8>>), Some(2)),
      Record(Some("v2"), Some("f1"), Some(<<1, 2, 3, 4>>), Some(1)),
      Record(Some("v1"), Some("f1"), Some(<<1, 2, 3, 4>>), Some(0)),
      Record(None, Some("f1"), Some(<<1, 2, 3, 4>>), Some(1)),
      Record(Some("v1"), None, Some(<<1, 2, 3, 4>>), Some(1)),
      Record(Some("v1"), Some("f1"), None, Some(1)),
      Record(Some("v1"), Some("f1"), Some(<<1, 2, 3, 4>>), None) }

\* What open() and json.load() do with a file of the directory.
CaughtErrors == {"JSONDecodeError", "FileNotFoundError"}

UncaughtErrors == {"PermissionError", "UnicodeDecodeError"}

\* Python truthiness of the four values of line 46.
TruthyStr(v) == v # None /\ v[1] # ""

TruthySeq(v) == v # None /\ Len(v[1]) > 0

TruthyInt(v) == v # None /\ v[1] # 0

\* all([video_id, frame_name, bbox, track_id])
AllTruthy(det) ==
    /\ TruthyStr(det.video_id)
    /\ TruthyStr(det.frame)
    /\ TruthySeq(det.bbox)
    /\ TruthyInt(det.track_id)

\* proposal_entry, line 50 (1 is the score 1.0)
ProposalEntry(det) ==
    <<det.bbox[1][1], det.bbox[1][2], det.bbox[1][3], det.bbox[1][4], 1,
      det.track_id[1]>>

EmptyDict == [k \in {} |-> <<>>]

\* d[video_id][frame_name].append(entry) on the defaultdict of line 28
AppendEntry(d, video_id, frame_name, entry) ==
    LET inner == IF video_id \in DOMAIN d THEN d[video_id] ELSE EmptyDict
        list  == IF frame_name \in DOMAIN inner THEN inner[frame_name]
                 ELSE <<>>
        added == [f \in DOMAIN inner \cup {frame_name} |->
                     IF f = frame_name THEN Append(list, entry)
                     ELSE inner[f]]
    IN  [v \in DOMAIN d \cup {video_id} |->
            IF v = video_id THEN added ELSE d[v]]

NoDet == Record(None, None, None, None)

FileEvent(outcome) == [kind |-> "file", outcome |-> outcome, det |-> NoDet]

RecordEvent(det) == [kind |-> "record", outcome |-> "ok", det |-> det]

RecordsMet == Cardinality({i \in DOMAIN ag_input : ag_input[i].kind = "record"})

\* The second call is given what the first call was given: e is what a
\* second call meets next.
AgMayMeet(e) ==
    IF ag_run = 1 THEN TRUE
    ELSE /\ Len(ag_input) < Len(ag_replay)
         /\ ag_replay[Len(ag_input) + 1] = e

\* The open file holds no further record.
AgMayEnd ==
    IF ag_run = 1 \/ Len(ag_input) >= Len(ag_replay) THEN TRUE
    ELSE ag_replay[Len(ag_input) + 1].kind = "file"

\* (faulty variant) the table is kept from one call to the next
KeptResultsDict(old) == old

\* Line 28: results_dict is a new, empty table in every call.
NewResultsDict(old) == EmptyDict

AgInit ==
    /\ ag_pc = "start"
    /\ ag_nfiles = 0
    /\ ag_file = 0
    /\ ag_input = <<>>
    /\ results_dict = EmptyDict
    /\ ag_log = <<>>
    /\ ag_pickle = <<>>
    /\ ag_run = 1
    /\ ag_replay = <<>>
    /\ ag_first = <<>>

\* Lines 18-20: tracking_dir is not a directory.
AgNotDir ==
    /\ ag_pc = "start"
    /\ ag_run = 1
    /\ ag_log' = Append(ag_log, <<"error", "not found">>)
    /\ ag_pc' = "returned"
    /\ UNCHANGED <<ag_nfiles, ag_file, ag_input, results_dict, ag_pickle>>
    /\ UNCHANGED <<ag_run, ag_replay, ag_first>>
    /\ UNCHANGED <<kfVars, moVars, tkVars, plVars, svcVars>>

\* Lines 22-27: the .json files of the directory.
AgListDir ==
    /\ ag_pc = "start"
    /\ \E n \in 0..MaxFiles :
          /\ ag_run = 2 => n = ag_nfiles
          /\ ag_nfiles' = n
          /\ IF n = 0
             THEN /\ ag_log' = Append(ag_log, <<"error", "no json files">>)
                  /\ ag_pc' = "returned"
             ELSE /\ ag_log' = Append(ag_log, <<"info", "found files">>)
                  /\ ag_pc' = "files"
    /\ UNCHANGED <<ag_file, ag_input, results_dict, ag_pickle>>
    /\ UNCHANGED <<ag_run, ag_replay, ag_first>>
    /\ UNCHANGED <<kfVars, moVars, tkVars, plVars, svcVars>>

\* Lines 33-35: the next file is opened and parsed.
AgLoad ==
    /\ ag_pc = "files"
    /\ ag_file < ag_nfiles
    /\ ag_file' = ag_file + 1
    /\ AgMayMeet(FileEvent("ok"))
    /\ ag_input' = Append(ag_input, FileEvent("ok"))
    /\ ag_pc' = "records"
    /\ UNCHANGED <<ag_nfiles, results_dict, ag_log, ag_pickle>>
    /\ UNCHANGED <<ag_run, ag_replay, ag_first>>
    /\ UNCHANGED <<kfVars, moVars, tkVars, plVars, svcVars>>

\* Lines 36-38: an error of the except clause; warning, next file.
AgSkipFile ==
    /\ ag_pc = "files"
    /\ ag_file < ag_nfiles
    /\ ag_file' = ag_file + 1
    /\ \E e \in CaughtErrors :
          /\ AgMayMeet(FileEvent(e))
          /\ ag_input' = Append(ag_input, FileEvent(e))
    /\ ag_log' = Append(ag_log, <<"warning", "skipping file">>)
    /\ UNCHANGED <<ag_pc, ag_nfiles, results_dict, ag_pickle>>
    /\ UNCHANGED <<ag_run, ag_replay, ag_first>>
    /\ UNCHANGED <<kfVars, moVars, tkVars, plVars, svcVars>>

\* Lines 33-36: any other error of open() or json.load() leaves the function.
AgFileRaises ==
    /\ ag_pc = "files"
    /\ ag_file < ag_nfiles
    /\ ag_file' = ag_file + 1
    /\ \E e \in UncaughtErrors :
          /\ AgMayMeet(FileEvent(e))
          /\ ag_input' = Append(ag_input, FileEvent(e))
    /\ ag_pc' = "raised"
    /\ UNCHANGED <<ag_nfiles, results_dict, ag_log, ag_pickle>>
    /\ UNCHANGED <<ag_run, ag_replay, ag_first>>
    /\ UNCHANGED <<kfVars, moVars, tkVars, plVars, svcVars>>

\* Lines 40-51: one record of the open file.
AgRecord ==
    /\ ag_pc = "records"
    /\ RecordsMet < MaxRecords
    /\ \E det \in Records :
          /\ AgMayMeet(RecordEvent(det))
          /\ ag_input' = Append(ag_input, RecordEvent(det))
          /\ IF ~AllTruthy(det)
             THEN results_dict' = results_dict
             ELSE results_dict' =
                      AppendEntry(results_dict, det.video_id[1], det.frame[1],
                                  ProposalEntry(det))
    /\ UNCHANGED <<ag_pc, ag_nfiles, ag_file, ag_log, ag_pickle>>
    /\ UNCHANGED <<ag_run, ag_replay, ag_first>>
    /\ UNCHANGED <<kfVars, moVars, tkVars, plVars, svcVars>>

\* Line 40: the records of the open file are exhausted.
AgEndFile ==
    /\ ag_pc = "records"
    /\ AgMayEnd
    /\ ag_pc' = "files"
    /\ UNCHANGED <<ag_nfiles, ag_file, ag_input, results_dict, ag_log,
                   ag_pickle>>
    /\ UNCHANGED <<ag_run, ag_replay, ag_first>>
    /\ UNCHANGED <<kfVars, moVars, tkVars, plVars, svcVars>>

\* Lines 53-62: after the last file.
AgFinish ==
    /\ ag_pc = "files"
    /\ ag_file = ag_nfiles
    /\ IF results_dict = EmptyDict
       THEN /\ ag_log' = Append(ag_log, <<"error", "no valid tracks">>)
            /\ ag_pickle' = ag_pickle
       ELSE /\ ag_pickle' = <<results_dict>>
            /\ ag_log' = Append(ag_log, <<"info", "saved">>)
    /\ ag_pc' = "returned"
    /\ UNCHANGED <<ag_nfiles, ag_file, ag_input, results_dict>>
    /\ UNCHANGED <<ag_run, ag_replay, ag_first>>
    /\ UNCHANGED <<kfVars, moVars, tkVars, plVars, svcVars>>

\* A second call of generate_proposals_from_tracks on the same directory,
\* after a first call that went through its files: every local starts anew.
AgRerun ==
    /\ ag_pc = "returned"
    /\ ag_run = 1
    /\ ag_nfiles > 0
    /\ ag_run' = 2
    /\ ag_replay' = ag_input
    /\ ag_first' = [table |-> results_dict, pickle |-> ag_pickle]
    /\ ag_pc' = "start"
    /\ ag_file' = 0
    /\ ag_input' = <<>>
    /\ results_dict' = NewResultsDict(results_dict)
    /\ UNCHANGED <<ag_nfiles, ag_log, ag_pickle>>
    /\ UNCHANGED <<kfVars, moVars, tkVars, plVars, svcVars>>

AgNext ==
    \/ AgRerun
    \/ AgNotDir
    \/ AgListDir
    \/ AgLoad
    \/ AgSkipFile
    \/ AgFileRaises
    \/ AgRecord
    \/ AgEndFile
    \/ AgFinish

AggregatorInit == KfIdle /\ MoIdle /\ AgInit /\ TkIdle /\ PlIdle /\ SvcIdle

SpecAggregator == AggregatorInit /\ [][AgNext]_vars

----------------------------------------------------------------------------
(* PersonTracker (person_tracker.py) and the tracker it drives.  The       *)
(* tracker itself (byte_tracker.py) is not among the sources: its          *)
(* association engine, motion predictor and track life cycle follow        *)
(* sections 3 and 4.1-4.3 of the specification, with the parameters that   *)
(* PersonTracker.__init__ passes to it.  Scores and thresholds are in      *)
(* hundredths; an IoU and a cost are in millionths.                        *)

TrackThresh == 50

TrackBuffer == 30

MatchThresh == 80

\* The looser threshold of the second pass and the floor of a
\* low-confidence detection.
LowMatchThresh == 50

LowFloor == 10

\* Hits after which a Tentative track is Confirmed.
ConfirmHits == 2

Million == 1000000

BoxArea(b) == Max(0, b[3] - b[1]) * Max(0, b[4] - b[2])

Intersection(a, b) ==
    Max(0, Min(a[3], b[3]) - Max(a[1], b[1]))
        * Max(0, Min(a[4], b[4]) - Max(a[2], b[2]))

\* inter / (sum - inter) in millionths; 0 when both boxes are empty.
Ratio(inter, sum) ==
    IF sum - inter = 0 THEN 0 ELSE (inter * Million) \div (sum - inter)

\* IoU in millionths.
IoU(a, b) == Ratio(Intersection(a, b), BoxArea(a) + BoxArea(b))

\* cost[i][j] = 1 - IoU
Cost(a, b) == Million - IoU(a, b)

\* 4.1 predict: the box one frame on, at constant velocity.
Predict(t) ==
    [t EXCEPT !.bbox = [k \in 1..4 |-> t.bbox[k] + t.vel[k]]]

\* 4.1 update: the state corrected with the matched box; the velocity is
\* the move from the last estimate.
MotionUpdate(t, box) ==
    [t EXCEPT !.vel = [k \in 1..4 |-> box[k] - (t.bbox[k] - t.vel[k])],
              !.bbox = box]

\* The assignments of tracks ts to detections ds: sets of pairs <<t, d>>,
\* no track and no detection twice, as many pairs as can be.
Assignments(ts, ds) ==
    {a \in SUBSET (ts \X ds) :
        /\ \A p, q \in a : (p[1] = q[1] \/ p[2] = q[2]) => p = q
        /\ Cardinality(a) = Min(Cardinality(ts), Cardinality(ds))}

\* The cost matrix over tracks ts and detections ds.
CostMatrix(ts, ds, tbox, dbox) ==
    [p \in ts \X ds |-> Cost(tbox[p[1]], dbox[p[2]])]

TotalCost(a, cost) == SumOver(cost, a)

\* The detection indices of an assignment read as one number, the lower
\* tracks weighing more and a track without a detection counting as n + 1,
\* for the tie-break among assignments of equal cost.
DetRank(a, ts, n) ==
    SumOver([t \in ts |->
                (IF \E p \in a : p[1] = t
                 THEN (CHOOSE p \in a : p[1] = t)[2]
                 ELSE n + 1)
                    * (n + 2) ^ Cardinality({u \in ts : u > t})], ts)

\* The assignments of least total cost.
Cheapest(all, total) ==
    {a \in all : \A b \in all : total[a] <= total[b]}

\* Among them the one with the lower detection indices.
LowestRank(best, rank) ==
    CHOOSE a \in best : \A b \in best : rank[a] <= rank[b]

SolveAmong(all, ts, n, cost) ==
    LowestRank(Cheapest(all, [a \in all |-> TotalCost(a, cost)]),
               [a \in all |-> DetRank(a, ts, n)])

\* The minimum-cost assignment; among equal costs the lower detection index.
Solve(ts, ds, n, cost) == SolveAmong(Assignments(ts, ds), ts, n, cost)

\* The pairs of an assignment whose cost does not exceed 1 - thresh.
Accepted(a, cost, thresh) ==
    {p \in a : cost[p] <= Million - thresh * (Million \div 100)}

\* One pass of the association engine.
Pass(ts, ds, tbox, dbox, thresh) ==
    Accepted(Solve(ts, ds, Len(dbox), CostMatrix(ts, ds, tbox, dbox)),
             CostMatrix(ts, ds, tbox, dbox), thresh)

\* (faulty variant) the second pass is run over every active track
AllTracksAgain(active, m1) == active

\* The tracks that the first pass left unmatched.
SecondPassTracks(active, m1) == active \ {p[1] : p \in m1}

\* What associate() returns after the two passes m1 and m2.
AssocResult(active, ds, m1, m2) ==
    [matches |-> m1 \cup m2,
     first |-> m1,
     unmatched_tracks |-> active \ {p[1] : p \in m1 \cup m2},
     unmatched_dets |-> ds \ {p[2] : p \in m1 \cup m2}]

SecondPass(active, ds, low, tbox, dbox, m1) ==
    AssocResult(active, ds, m1,
                Pass(SecondPassTracks(active, m1), low, tbox, dbox,
                     LowMatchThresh))

Cascade(active, ds, high, low, tbox, dbox) ==
    SecondPass(active, ds, low, tbox, dbox,
               Pass(active, high, tbox, dbox, MatchThresh))

HighDets(dets) == {j \in DOMAIN dets : dets[j].score >= TrackThresh}

LowDets(dets) ==
    {j \in DOMAIN dets : dets[j].score < TrackThresh /\ dets[j].score > LowFloor}

\* (faulty variant) Removed tracks are associated like the others
EveryTrack(tracks) == DOMAIN tracks

\* The tracks that take part in the association: Removed is terminal.
ActiveTracks(tracks) ==
    {i \in DOMAIN tracks : tracks[i].state # "Removed"}

\* 4.2 associate(predicted_tracks, detections): tracks and detections are
\* named by their positions.
Associate(tracks, dets) ==
    Cascade(ActiveTracks(tracks),
            DOMAIN dets, HighDets(dets), LowDets(dets),
            [i \in DOMAIN tracks |-> tracks[i].bbox],
            [j \in DOMAIN dets |-> dets[j].bbox])

NewTrack(id, det) ==
    [track_id |-> id, state |-> "Tentative", bbox |-> det.bbox,
     vel |-> <<0, 0, 0, 0>>, hits |-> 0, time_since_update |-> 0]

\* (faulty variant) a Tentative track is confirmed one match too late
MatchedOneTooLate(t, det) ==
    [MotionUpdate(t, det.bbox) EXCEPT
        !.time_since_update = 0,
        !.hits = t.hits + 1,
        !.state = IF t.state = "Tentative" /\ t.hits + 1 <= ConfirmHits
                  THEN "Tentative" ELSE "Confirmed"]

\* 4.3 step 3: the track matched to a detection.
Matched(t, det) ==
    [MotionUpdate(t, det.bbox) EXCEPT
        !.time_since_update = 0,
        !.hits = t.hits + 1,
        !.state = IF t.state = "Tentative" /\ t.hits + 1 < ConfirmHits
                  THEN "Tentative" ELSE "Confirmed"]

\* (faulty variant) a Tentative track is removed without counting the frame
UnmatchedTentativeUncounted(t) ==
    [t EXCEPT
        !.time_since_update = IF t.state = "Tentative" THEN t.time_since_update
                              ELSE t.time_since_update + 1,
        !.state = IF t.state = "Tentative" THEN "Removed"
                  ELSE IF t.time_since_update + 1 > TrackBuffer
                       THEN "Removed" ELSE "Lost"]

\* (faulty variant) a Tentative track is buffered like a Confirmed one
UnmatchedBuffered(t) ==
    [t EXCEPT
        !.time_since_update = t.time_since_update + 1,
        !.state = IF t.time_since_update + 1 > TrackBuffer
                  THEN "Removed" ELSE "Lost"]

\* (faulty variant) a track that was Confirmed is never removed
UnmatchedNeverRemoved(t) ==
    [t EXCEPT
        !.time_since_update = t.time_since_update + 1,
        !.state = IF t.state = "Tentative" THEN "Removed" ELSE "Lost"]

\* 4.3 step 4: the track left unmatched.
Unmatched(t) ==
    [t EXCEPT
        !.time_since_update = t.time_since_update + 1,
        !.state = IF t.state = "Tentative" THEN "Removed"
                  ELSE IF t.time_since_update + 1 > TrackBuffer
                       THEN "Removed" ELSE "Lost"]

\* (faulty variant) the id is the number of live tracks plus one
NextIdFromLive(tracks, next_id, k) ==
    Cardinality({i \in DOMAIN tracks : tracks[i].state # "Removed"}) + k

\* The id of the k-th track spawned in a frame.
NextId(tracks, next_id, k) == next_id + k - 1

\* The elements of a set of numbers in increasing order.
RECURSIVE Sorted(_)
Sorted(set) ==
    IF set = {} THEN <<>>
    ELSE <<CHOOSE y \in set : \A z \in set : y <= z>>
            \o Sorted(set \ {CHOOSE y \in set : \A z \in set : y <= z})

\* 4.3 step 1: every active track predicted one frame on.
PredictAll(tracks) ==
    [i \in DOMAIN tracks |->
        IF tracks[i].state = "Removed" THEN tracks[i] ELSE Predict(tracks[i])]

\* 4.3 steps 3 and 4: the tracks after the association.
Kept(predicted, dets, assoc) ==
    [i \in DOMAIN predicted |->
        IF \E p \in assoc.matches : p[1] = i
        THEN Matched(predicted[i],
                     dets[(CHOOSE p \in assoc.matches : p[1] = i)[2]])
        ELSE IF i \in assoc.unmatched_tracks
             THEN Unmatched(predicted[i])
             ELSE predicted[i]]

\* 4.3 step 5: the unmatched high-confidence detections, in order.
Births(dets, assoc) ==
    Sorted({j \in assoc.unmatched_dets : dets[j].score >= TrackThresh})

Born(tracks, next_id, dets, births) ==
    [k \in DOMAIN births |->
        NewTrack(NextId(tracks, next_id, k), dets[births[k]])]

Settle(tracks, next_id, dets, predicted, assoc, births) ==
    [tracks |-> Kept(predicted, dets, assoc)
                    \o Born(tracks, next_id, dets, births),
     next_id |-> next_id + Len(births),
     assoc |-> assoc]

Lifecycle(tracks, next_id, dets, predicted, assoc) ==
    Settle(tracks, next_id, dets, predicted, assoc, Births(dets, assoc))

Associated(tracks, next_id, dets, predicted) ==
    Lifecycle(tracks, next_id, dets, predicted, Associate(predicted, dets))

\* 4.3 update(detections): the tracks after the frame, with what the
\* association engine returned.
TrackerUpdate(tracks, next_id, dets) ==
    Associated(tracks, next_id, dets, PredictAll(tracks))

\* The tracks reported for a frame: the Confirmed ones.
OnlineTracks(tracks) ==
    SelectSeq(tracks, LAMBDA t : t.state = "Confirmed")

\* PersonTracker(video_id, conf, person_class_id): the defaults of line 20
\* and the confidence that run_pipeline passes.
TkPersonClassId == 0

ConfValues == {45, 50}

RawDet(box, score, class_id) ==
    [bbox |-> box, score |-> score, class_id |-> class_id]

\* (faulty variant) the class of a detection is not looked at
ParseAnyClass(raw, conf) ==
    LET keep == SelectSeq(raw, LAMBDA d : d.score >= conf)
    IN  [j \in DOMAIN keep |-> [bbox |-> keep[j].bbox, score |-> keep[j].score]]

\* _parse_detections, lines 33-53: the rows (box, score) of the person
\* detections with a score of conf or more.
ParseDetections(raw, conf) ==
    LET keep == SelectSeq(raw, LAMBDA d :
                    d.class_id = TkPersonClassId /\ d.score >= conf)
    IN  [j \in DOMAIN keep |-> [bbox |-> keep[j].bbox, score |-> keep[j].score]]

\* Lines 89-96: the records written for the frame.
JsonRecords(online) ==
    [k \in DOMAIN online |->
        [track_id |-> online[k].track_id, bbox |-> online[k].bbox]]

\* What the detector may give for a frame of a short run.
RawDets ==
    { RawDet(<<0, 0, 10, 10>>, 90, 0),
      RawDet(<<1, 0, 11, 10>>, 90, 0),
      RawDet(<<3, 0, 13, 10>>, 45, 0),
      RawDet(<<0, 0, 10, 10>>, 90, 1) }

RawFrames ==
    {<<>>} \cup {<<d>> : d \in RawDets}
           \cup {<<p[1], p[2]>> : p \in {q \in RawDets \X RawDets : q[1] # q[2]}}

\* One object that is seen or not seen, for a long run.
WatchFrames ==
    {<<>>, <<RawDet(<<0, 0, 10, 10>>, 90, 0)>>,
     <<RawDet(<<0, 0, 10, 10>>, 45, 0)>>}

\* The frames of the end-to-end scenario of section 8.
ScenarioFrames ==
    << <<RawDet(<<10, 10, 50, 50>>, 90, 0)>>,
       <<RawDet(<<12, 11, 52, 51>>, 90, 0)>>,
       <<RawDet(<<14, 12, 54, 52>>, 90, 0)>> >>

WatchTicks == TrackBuffer + MaxTicks + 2

TkInit ==
    /\ tk_pc = "run"
    /\ tk_conf \in ConfValues
    /\ tk_tracks = <<>>
    /\ tk_next_id = 1
    /\ tk_frames = 0
    /\ tk_last = NoFrame
    /\ tk_history = <<>>
    /\ tk_out = <<>>

\* Lines 81-110: the tracker's answer u to the detections of the frame.
Tracked(raw, keep, dets, u) ==
    /\ tk_tracks' = u.tracks
    /\ tk_next_id' = u.next_id
    /\ tk_frames' = tk_frames + 1
    /\ tk_last' = [raw |-> raw, dets |-> dets, before |-> tk_tracks,
                   matches |-> u.assoc.matches, first |-> u.assoc.first,
                   unmatched_tracks |-> u.assoc.unmatched_tracks,
                   unmatched_dets |-> u.assoc.unmatched_dets]
    /\ tk_history' = IF keep THEN Append(tk_history, raw) ELSE tk_history
    /\ tk_out' = JsonRecords(OnlineTracks(u.tracks))
    /\ UNCHANGED <<tk_pc, tk_conf>>
    /\ UNCHANGED <<kfVars, moVars, agVars, plVars, svcVars>>

Detected(raw, keep, dets) ==
    Tracked(raw, keep, dets, TrackerUpdate(tk_tracks, tk_next_id, dets))

\* Lines 78-110 of process_single_keyframe: detection, tracking and the
\* records of the frame.
ProcessFrame(raw, keep) ==
    Detected(raw, keep, ParseDetections(raw, tk_conf))

\* process_single_keyframe on a frame of a short run.
TkKeyframe ==
    /\ tk_pc = "run"
    /\ tk_frames < MaxTicks
    /\ \E raw \in RawFrames : ProcessFrame(raw, TRUE)

\* Lines 60-75: the video does not open or the frame is not read; the call
\* returns None and leaves the tracker as it was.
TkNoKeyframe ==
    /\ tk_pc = "run"
    /\ UNCHANGED tkVars
    /\ UNCHANGED <<kfVars, moVars, agVars, plVars, svcVars>>

\* process_single_keyframe on a frame of the scenario or on an empty frame.
TkScenario ==
    /\ tk_pc = "run"
    /\ tk_frames < MaxTicks
    /\ \E raw \in {<<>>} \cup {ScenarioFrames[k] : k \in DOMAIN ScenarioFrames} :
          ProcessFrame(raw, TRUE)

\* process_single_keyframe on a frame of a long run.
TkWatch ==
    /\ tk_pc = "run"
    /\ tk_frames < WatchTicks
    /\ \E raw \in WatchFrames :
          /\ ProcessFrame(raw, FALSE)
          /\ tk_next_id' <= MaxTrackIds + 1

TkNext == TkKeyframe \/ TkNoKeyframe

TrackerInit == KfIdle /\ MoIdle /\ AgIdle /\ TkInit /\ PlIdle /\ SvcIdle

SpecTracker == TrackerInit /\ [][TkNext]_vars

ScenarioNext == TkScenario \/ TkNoKeyframe

SpecScenario == TrackerInit /\ [][ScenarioNext]_vars

WatchNext == TkWatch \/ TkNoKeyframe

SpecWatch == TrackerInit /\ [][WatchNext]_vars

----------------------------------------------------------------------------
(* run_pipeline of orchestrator.py. *)

\* The stems of the clip files that clip_video may leave in 2_clipped_videos.
ClipStems == {"a", "b", "c"}

\* Line 68: list(Path(clipped_dir).rglob("*.mp4")), by stem.
ClipLists ==
    {s \in UNION {[1..n -> ClipStems] : n \in 0..MaxClips} :
        \A i, j \in DOMAIN s : i # j => s[i] # s[j]}

\* The methods that class PersonTracker defines (person_tracker.py, lines
\* 20, 33 and 55).
PersonTrackerMethods ==
    {"__init__", "_parse_detections", "process_single_keyframe"}

\* Line 75: PersonTracker(video_id=clip_stem, conf=0.45, person_class_id=1);
\* clips holds the clips whose frames the object's tracker has received.
PersonTracker(clip_stem) ==
    [video_id |-> clip_stem, conf |-> 45, person_class_id |-> 1, clips |-> {}]

\* The stages that are one call or one loop over files: 1, 2 and 5 to 9.
PlainStages == {1, 2} \cup (5..9)

PlInit ==
    /\ pl_pc = "start"
    /\ pl_s3 \in BOOLEAN
    /\ pl_stage = 0
    /\ pl_clips = <<>>
    /\ pl_clip = 0
    /\ pl_trackers = <<>>
    /\ pl_exc = "none"
    /\ pl_work_dir = FALSE
    /\ pl_log = <<>>

\* Lines 25-46: the directories are made.
PlStart ==
    /\ pl_pc = "start"
    /\ pl_pc' = "stages"
    /\ pl_work_dir' = TRUE
    /\ UNCHANGED <<pl_s3, pl_stage, pl_clips, pl_clip, pl_trackers, pl_exc, pl_log>>
    /\ UNCHANGED <<kfVars, moVars, agVars, tkVars, svcVars>>

\* Lines 43-45: a mkdir raises inside the try block; the work directory may
\* or may not have been made.
PlStartRaises ==
    /\ pl_pc = "start"
    /\ pl_pc' = "cleanup"
    /\ pl_exc' = "Exception"
    /\ pl_work_dir' \in BOOLEAN
    /\ UNCHANGED <<pl_s3, pl_stage, pl_clips, pl_clip, pl_trackers, pl_log>>
    /\ UNCHANGED <<kfVars, moVars, agVars, tkVars, svcVars>>

\* Stages 1, 2 and 5 to 9 (lines 48-58 and 84-118), when they succeed.
PlStage ==
    /\ pl_pc = "stages"
    /\ pl_stage + 1 \in PlainStages
    /\ pl_stage' = pl_stage + 1
    /\ UNCHANGED <<pl_pc, pl_s3, pl_clips, pl_clip, pl_trackers, pl_exc,
                   pl_work_dir, pl_log>>
    /\ UNCHANGED <<kfVars, moVars, agVars, tkVars, svcVars>>

\* Stage 3 (lines 60-64) and line 68: the clips are cut and listed.
PlClipVideos ==
    /\ pl_pc = "stages"
    /\ pl_stage = 2
    /\ pl_stage' = 3
    /\ pl_clips' \in ClipLists
    /\ UNCHANGED <<pl_pc, pl_s3, pl_clip, pl_trackers, pl_exc, pl_work_dir, pl_log>>
    /\ UNCHANGED <<kfVars, moVars, agVars, tkVars, svcVars>>

\* A stage of the try block raises (a bad ZIP file, a failing tool).
PlStageRaises ==
    /\ pl_pc = "stages"
    /\ pl_stage + 1 \in PlainStages \cup {3}
    /\ pl_exc' = "Exception"
    /\ pl_pc' = "cleanup"
    /\ UNCHANGED <<pl_s3, pl_stage, pl_clips, pl_clip, pl_trackers,
                   pl_work_dir, pl_log>>
    /\ UNCHANGED <<kfVars, moVars, agVars, tkVars, svcVars>>

\* Lines 70-75: the loop takes the next clip and constructs its tracker.
PlConstructTracker ==
    /\ pl_pc = "stages"
    /\ pl_stage = 3
    /\ pl_clip < Len(pl_clips)
    /\ pl_clip' = pl_clip + 1
    /\ pl_trackers' = Append(pl_trackers, PersonTracker(pl_clips[pl_clip + 1]))
    /\ pl_pc' = "tracking"
    /\ UNCHANGED <<pl_s3, pl_stage, pl_clips, pl_exc, pl_work_dir, pl_log>>
    /\ UNCHANGED <<kfVars, moVars, agVars, tkVars, svcVars>>

\* Lines 76-81: tracker.process_video(...).  The attribute lookup raises
\* AttributeError when the class has no such method, before any frame is
\* read.
PlProcessVideo ==
    /\ pl_pc = "tracking"
    /\ IF "process_video" \in PersonTrackerMethods
       THEN /\ pl_trackers' =
                  [pl_trackers EXCEPT ![pl_clip].clips = @ \cup {pl_clips[pl_clip]}]
            /\ pl_pc' = "stages"
            /\ UNCHANGED pl_exc
       ELSE /\ pl_exc' = "AttributeError"
            /\ pl_pc' = "cleanup"
            /\ UNCHANGED pl_trackers
    /\ UNCHANGED <<pl_s3, pl_stage, pl_clips, pl_clip, pl_work_dir, pl_log>>
    /\ UNCHANGED <<kfVars, moVars, agVars, tkVars, svcVars>>

\* Line 82: the loop of stage 4 has taken every clip.
PlTrackingDone ==
    /\ pl_pc = "stages"
    /\ pl_stage = 3
    /\ pl_clip = Len(pl_clips)
    /\ pl_stage' = 4
    /\ UNCHANGED <<pl_pc, pl_s3, pl_clips, pl_clip, pl_trackers, pl_exc,
                   pl_work_dir, pl_log>>
    /\ UNCHANGED <<kfVars, moVars, agVars, tkVars, svcVars>>

\* Stage 10 (lines 120-139): the upload, whose failure is logged, or the
\* warning that no bucket was given.
PlUpload ==
    /\ pl_pc = "stages"
    /\ pl_stage = 9
    /\ pl_stage' = 10
    /\ \E ok \in BOOLEAN :
          pl_log' = IF ~pl_s3 THEN Append(pl_log, "warning")
                    ELSE IF ok THEN pl_log
                    ELSE Append(pl_log, "error")
    /\ pl_pc' = "cleanup"
    /\ UNCHANGED <<pl_s3, pl_clips, pl_clip, pl_trackers, pl_exc, pl_work_dir>>
    /\ UNCHANGED <<kfVars, moVars, agVars, tkVars, svcVars>>

\* (faulty variant) the work directory is removed at the end of the try
\* block, not in a finally block
PlCleanupOnSuccess ==
    /\ pl_pc = "cleanup"
    /\ pl_work_dir' = IF pl_exc = "none" THEN FALSE ELSE pl_work_dir
    /\ pl_pc' = IF pl_exc = "none" THEN "returned" ELSE "raised"
    /\ UNCHANGED <<pl_s3, pl_stage, pl_clips, pl_clip, pl_trackers, pl_exc, pl_log>>
    /\ UNCHANGED <<kfVars, moVars, agVars, tkVars, svcVars>>

\* Lines 141-145: the finally block removes the work directory; the call
\* returns, or the exception goes on to the caller.
PlCleanup ==
    /\ pl_pc = "cleanup"
    /\ pl_work_dir' = FALSE
    /\ pl_pc' = IF pl_exc = "none" THEN "returned" ELSE "raised"
    /\ UNCHANGED <<pl_s3, pl_stage, pl_clips, pl_clip, pl_trackers, pl_exc, pl_log>>
    /\ UNCHANGED <<kfVars, moVars, agVars, tkVars, svcVars>>

PlNext ==
    \/ PlStart
    \/ PlStartRaises
    \/ PlStage
    \/ PlClipVideos
    \/ PlStageRaises
    \/ PlConstructTracker
    \/ PlProcessVideo
    \/ PlTrackingDone
    \/ PlUpload
    \/ PlCleanup

PipelineInit == KfIdle /\ MoIdle /\ AgIdle /\ TkIdle /\ PlInit /\ SvcIdle

SpecPipeline == PipelineInit /\ [][PlNext]_vars

----------------------------------------------------------------------------
(* AssignmentGenerator.select_annotators_for_batch of                      *)
(* services/assignment_generator.py.                                       *)

\* The usernames typed into the form (jobs_UI.py, line 43); the same name
\* may be typed twice.
Usernames == {"ann1", "ann2"}

\* all_annotators as the caller may pass it.
AnnotatorLists == UNION {[1..n -> Usernames] : n \in 0..MaxAnnotators}

\* (faulty variant) a sample with replacement, as random.choices draws it
SampleWithReplacement(n, k) == [1..k -> 1..n]

\* random.sample(population, k), by position: the sequences of k different
\* positions of a population of n.
Sample(n, k) ==
    {s \in [1..k -> 1..n] : \A i, j \in 1..k : i # j => s[i] # s[j]}

\* Line 31: min(num_required, len(all_annotators)).
NumToSelect(num_required, n) == IF num_required < n THEN num_required ELSE n

AsInit ==
    /\ as_pc = "start"
    /\ as_all \in AnnotatorLists
    /\ as_required \in 0..MaxRequired
    /\ as_positions = <<>>
    /\ as_selected = <<>>

\* Lines 28-29: an empty list raises ValueError.
AsEmpty ==
    /\ as_pc = "start"
    /\ as_all = <<>>
    /\ as_pc' = "raised"
    /\ UNCHANGED <<as_all, as_required, as_positions, as_selected>>
    /\ UNCHANGED <<toolVars, AsRest>>

\* Lines 31-35: the sample is drawn and returned.
AsSelect ==
    /\ as_pc = "start"
    /\ as_all # <<>>
    /\ \E s \in Sample(Len(as_all), NumToSelect(as_required, Len(as_all))) :
          /\ as_positions' = s
          /\ as_selected' = [k \in DOMAIN s |-> as_all[s[k]]]
    /\ as_pc' = "returned"
    /\ UNCHANGED <<as_all, as_required>>
    /\ UNCHANGED <<toolVars, AsRest>>

AsNext == AsEmpty \/ AsSelect

AssignmentInit == ToolsIdle /\ AsInit /\ MlIdle /\ CvIdle /\ UpIdle /\ XmIdle

SpecAssignment == AssignmentInit /\ [][AsNext]_vars

----------------------------------------------------------------------------
(* log_metric of metrics_logging/metrics_logger.py. *)

\* Line 52: the length, in seconds, of a deduplication bucket.
BucketSecs == 5

\* The event types and the values of extra that callers pass; the other
\* arguments are the same in every call.
EventTypes == {"ingest_time", "task_ready"}
Extras == {"None", "{}", "{files}"}

\* Line 48: extra = extra or {}.
ExtraOrEmpty(extra) == IF extra = "None" THEN "{}" ELSE extra

\* Lines 52-53: the key of a call made at time now.
MetricKey(event_type, extra, now) ==
    [event_type |-> event_type, extra_str |-> ExtraOrEmpty(extra),
     time_bucket |-> now \div BucketSecs]

\* Lines 59-66: the record of a call made at time now.
MetricRecord(event_type, extra, now) ==
    [timestamp |-> now, event_type |-> event_type,
     extra |-> ExtraOrEmpty(extra)]

MlInit ==
    /\ ml_now \in 0..1
    /\ ml_calls = 0
    /\ ml_seen = {}
    /\ ml_file = <<>>
    /\ ml_log = <<>>

\* A second passes.
MlTick ==
    /\ ml_now < MaxTime
    /\ ml_now' = ml_now + 1
    /\ UNCHANGED <<ml_calls, ml_seen, ml_file, ml_log>>
    /\ UNCHANGED <<toolVars, MlRest>>

\* Lines 54-56: the key of the call is in _seen_events.
MlSkip(event_type, extra) ==
    /\ MetricKey(event_type, extra, ml_now) \in ml_seen
    /\ ml_log' = Append(ml_log, "skip")
    /\ UNCHANGED <<ml_seen, ml_file>>

\* Lines 57-75: the key is added, then the record is written, or the write
\* fails and the failure is logged.
MlWrite(event_type, extra, written) ==
    /\ MetricKey(event_type, extra, ml_now) \notin ml_seen
    /\ ml_seen' = ml_seen \cup {MetricKey(event_type, extra, ml_now)}
    /\ ml_file' = IF written
                  THEN Append(ml_file, MetricRecord(event_type, extra, ml_now))
                  ELSE ml_file
    /\ ml_log' = Append(ml_log, IF written THEN "metric" ELSE "exception")

\* log_metric(event_type, extra=extra).
MlLogMetric ==
    /\ ml_calls < MaxCalls
    /\ ml_calls' = ml_calls + 1
    /\ \E event_type \in EventTypes, extra \in Extras, written \in BOOLEAN :
          \/ MlSkip(event_type, extra)
          \/ MlWrite(event_type, extra, written)
    /\ UNCHANGED ml_now
    /\ UNCHANGED <<toolVars, MlRest>>

MlNext == MlTick \/ MlLogMetric

MetricsInit == ToolsIdle /\ AsIdle /\ MlInit /\ CvIdle /\ UpIdle /\ XmIdle

SpecMetrics == MetricsInit /\ [][MlNext]_vars

----------------------------------------------------------------------------
(* CVATClient.create_batch_task_with_multiple_jobs of                      *)
(* services/cvat_integration.py.                                           *)

\* The id the server keeps for a user name.
UserId(username) == IF username = "ann1" THEN 11 ELSE 12

\* The id of the job that the server makes for the task when the data is
\* uploaded.
ExistingJobId == 1

\* A request sent with _make_authenticated_request.
Request(kind, job, user) == [kind |-> kind, job |-> job, user |-> user]

\* What happened to one annotator of the list.
Outcome(found, job, assigned) ==
    [found |-> found, job |-> job, assigned |-> assigned]

\* (faulty variant) the entry is appended whatever the server answered
AssignedRegardless(assigned_jobs, job_id, username, ok) ==
    Append(assigned_jobs, [job_id |-> job_id, annotator |-> username])

\* Lines 182-184 and 193-195: assigned_jobs.append(...) when the job was
\* assigned.
AssignedAfter(assigned_jobs, job_id, username, ok) ==
    IF ok THEN Append(assigned_jobs, [job_id |-> job_id, annotator |-> username])
    ELSE assigned_jobs

\* The id of the job that the server creates next.
NextJobId(jobs) == 1 + Cardinality(jobs)

CvInit ==
    /\ cv_pc = "start"
    /\ cv_annotators \in AnnotatorLists
    /\ cv_requests = <<>>
    /\ cv_failed = "none"
    /\ cv_import_ok = TRUE
    /\ cv_first_job = 0
    /\ cv_jobs = {}
    /\ cv_acks = {}
    /\ cv_outcomes = <<>>
    /\ cv_assigned = <<>>
    /\ cv_result = "pending"

\* The call gives up at a step and returns None.
CvGiveUp(step) ==
    /\ cv_failed' = step
    /\ cv_result' = "None"
    /\ cv_pc' = "returned"

\* Lines 156-158: the annotator list is empty.
CvEmpty ==
    /\ cv_pc = "start"
    /\ cv_annotators = <<>>
    /\ CvGiveUp("empty")
    /\ UNCHANGED <<cv_annotators, cv_requests, cv_import_ok, cv_first_job,
                   cv_jobs, cv_acks, cv_outcomes, cv_assigned>>
    /\ UNCHANGED <<toolVars, CvRest>>

\* Lines 160-162: create_task.
CvCreateTask ==
    /\ cv_pc = "start"
    /\ cv_annotators # <<>>
    /\ cv_requests' = Append(cv_requests, Request("create_task", 0, 0))
    /\ \E created \in BOOLEAN :
          IF created
          THEN cv_pc' = "upload" /\ UNCHANGED <<cv_failed, cv_result>>
          ELSE CvGiveUp("create_task")
    /\ UNCHANGED <<cv_annotators, cv_import_ok, cv_first_job, cv_jobs, cv_acks,
                   cv_outcomes, cv_assigned>>
    /\ UNCHANGED <<toolVars, CvRest>>

\* Lines 164-167: upload_data_to_task; the server makes the task's job when
\* the upload has finished.
CvUpload ==
    /\ cv_pc = "upload"
    /\ cv_requests' = Append(cv_requests, Request("upload_data", 0, 0))
    /\ \E uploaded \in BOOLEAN :
          IF uploaded
          THEN /\ cv_pc' = "import"
               /\ cv_jobs' = {ExistingJobId}
               /\ UNCHANGED <<cv_failed, cv_result>>
          ELSE CvGiveUp("upload_data") /\ UNCHANGED cv_jobs
    /\ UNCHANGED <<cv_annotators, cv_import_ok, cv_first_job, cv_acks,
                   cv_outcomes, cv_assigned>>
    /\ UNCHANGED <<toolVars, CvRest>>

\* (faulty variant) a failed import of the annotations ends the call
CvImportAborts ==
    /\ cv_pc = "import"
    /\ cv_requests' = Append(cv_requests, Request("import_annotations", 0, 0))
    /\ \E imported \in BOOLEAN :
          /\ cv_import_ok' = imported
          /\ IF imported
             THEN cv_pc' = "jobs" /\ UNCHANGED <<cv_failed, cv_result>>
             ELSE CvGiveUp("import_annotations")
    /\ UNCHANGED <<cv_annotators, cv_first_job, cv_jobs, cv_acks, cv_outcomes,
                   cv_assigned>>
    /\ UNCHANGED <<toolVars, CvRest>>

\* Lines 169-171: import_annotations; a failure is only a warning.
CvImport ==
    /\ cv_pc = "import"
    /\ cv_requests' = Append(cv_requests, Request("import_annotations", 0, 0))
    /\ \E imported \in BOOLEAN : cv_import_ok' = imported
    /\ cv_pc' = "jobs"
    /\ UNCHANGED <<cv_annotators, cv_failed, cv_first_job, cv_jobs, cv_acks,
                   cv_outcomes, cv_assigned, cv_result>>
    /\ UNCHANGED <<toolVars, CvRest>>

\* Lines 176-177: the jobs of the task are listed; the request is outside
\* every try block, so its exception leaves the call.
CvListJobs ==
    /\ cv_pc = "jobs"
    /\ cv_requests' = Append(cv_requests, Request("list_jobs", 0, 0))
    /\ \E answered \in BOOLEAN :
          IF answered
          THEN cv_pc' = "first" /\ cv_first_job' = ExistingJobId
          ELSE cv_pc' = "raised" /\ UNCHANGED cv_first_job
    /\ UNCHANGED <<cv_annotators, cv_failed, cv_import_ok, cv_jobs, cv_acks,
                   cv_outcomes, cv_assigned, cv_result>>
    /\ UNCHANGED <<toolVars, CvRest>>

\* Lines 179-185: the first annotator is looked up and given the existing
\* job.
CvFirst ==
    /\ cv_pc = "first"
    /\ \E found \in BOOLEAN, ok \in BOOLEAN :
          /\ found \/ ~ok
          /\ cv_requests' =
                cv_requests
                  \o <<Request("get_user", 0, 0)>>
                  \o (IF found
                      THEN <<Request("assign_job", cv_first_job,
                                     UserId(cv_annotators[1]))>>
                      ELSE <<>>)
          /\ cv_acks' = IF ok
                        THEN cv_acks \cup {<<cv_first_job, UserId(cv_annotators[1])>>}
                        ELSE cv_acks
          /\ cv_outcomes' = Append(cv_outcomes, Outcome(found, cv_first_job, ok))
          /\ cv_assigned' =
                AssignedAfter(cv_assigned, cv_first_job, cv_annotators[1], ok)
    /\ cv_pc' = "loop"
    /\ UNCHANGED <<cv_annotators, cv_failed, cv_import_ok, cv_first_job,
                   cv_jobs, cv_result>>
    /\ UNCHANGED <<toolVars, CvRest>>

\* Lines 187-196 with _create_and_assign_job (lines 121-143) for the next
\* annotator: the user is looked up, a job is created and assigned to the
\* user.
CvNextAnnotator ==
    /\ cv_pc = "loop"
    /\ Len(cv_outcomes) < Len(cv_annotators)
    /\ \E found \in BOOLEAN, created \in BOOLEAN, ok \in BOOLEAN :
          /\ found \/ ~created
          /\ created \/ ~ok
          /\ cv_requests' =
                cv_requests
                  \o <<Request("get_user", 0, 0)>>
                  \o (IF found
                      THEN <<Request("get_task", 0, 0), Request("create_job", 0, 0)>>
                      ELSE <<>>)
                  \o (IF created
                      THEN <<Request("assign_job", NextJobId(cv_jobs),
                                     UserId(cv_annotators[Len(cv_outcomes) + 1]))>>
                      ELSE <<>>)
          /\ cv_jobs' = IF created THEN cv_jobs \cup {NextJobId(cv_jobs)} ELSE cv_jobs
          /\ cv_acks' =
                IF ok
                THEN cv_acks \cup {<<NextJobId(cv_jobs),
                                     UserId(cv_annotators[Len(cv_outcomes) + 1])>>}
                ELSE cv_acks
          /\ cv_outcomes' =
                Append(cv_outcomes,
                       Outcome(found, IF created THEN NextJobId(cv_jobs) ELSE 0, ok))
          /\ cv_assigned' =
                AssignedAfter(cv_assigned, NextJobId(cv_jobs),
                              cv_annotators[Len(cv_outcomes) + 1], ok)
    /\ UNCHANGED <<cv_pc, cv_annotators, cv_failed, cv_import_ok, cv_first_job,
                   cv_result>>
    /\ UNCHANGED <<toolVars, CvRest>>

\* Lines 198-202: the result is returned.
CvReturn ==
    /\ cv_pc = "loop"
    /\ Len(cv_outcomes) = Len(cv_annotators)
    /\ cv_result' = "dict"
    /\ cv_pc' = "returned"
    /\ UNCHANGED <<cv_annotators, cv_requests, cv_failed, cv_import_ok,
                   cv_first_job, cv_jobs, cv_acks, cv_outcomes, cv_assigned>>
    /\ UNCHANGED <<toolVars, CvRest>>

CvNext ==
    \/ CvEmpty
    \/ CvCreateTask
    \/ CvUpload
    \/ CvImport
    \/ CvListJobs
    \/ CvFirst
    \/ CvNextAnnotator
    \/ CvReturn

BatchInit == ToolsIdle /\ AsIdle /\ MlIdle /\ CvInit /\ UpIdle /\ XmIdle

SpecBatch == BatchInit /\ [][CvNext]_vars

----------------------------------------------------------------------------
(* CVATClient.upload_data_to_task of services/cvat_integration.py. *)

\* What a poll of /api/requests/{rq_id} may report: the status of the
\* request, "None" when the answer has no status.
PollStatuses == {"queued", "started", "finished", "failed", "None"}

\* The last MaxPolls statuses, with the new one.
Remember(statuses, status) ==
    IF Len(statuses) < MaxPolls THEN Append(statuses, status)
    ELSE Append(Tail(statuses), status)

UpInit ==
    /\ up_pc = "start"
    /\ up_statuses = <<>>
    /\ up_result = "pending"

\* Lines 63-71 and 83-85: the file cannot be opened, the POST raises or its
\* answer is not 202.
UpStartFails ==
    /\ up_pc = "start"
    /\ up_pc' = "returned"
    /\ up_result' = "False"
    /\ UNCHANGED up_statuses
    /\ UNCHANGED <<toolVars, UpRest>>

\* Lines 63-72: the upload request is accepted.
UpStart ==
    /\ up_pc = "start"
    /\ up_pc' = "poll"
    /\ UNCHANGED <<up_statuses, up_result>>
    /\ UNCHANGED <<toolVars, UpRest>>

\* Lines 74-81: one poll of the request.
UpPoll ==
    /\ up_pc = "poll"
    /\ \E status \in PollStatuses :
          /\ up_statuses' = Remember(up_statuses, status)
          /\ up_pc' = IF status \in {"finished", "failed"} THEN "returned"
                      ELSE "sleep"
          /\ up_result' = IF status = "finished" THEN "True"
                          ELSE IF status = "failed" THEN "False"
                          ELSE up_result
    /\ UNCHANGED <<toolVars, UpRest>>

\* Lines 74-75 and 83-85: the poll raises (no connection, an answer that is
\* not JSON).
UpPollRaises ==
    /\ up_pc = "poll"
    /\ up_pc' = "returned"
    /\ up_result' = "False"
    /\ UNCHANGED up_statuses
    /\ UNCHANGED <<toolVars, UpRest>>

\* Line 82: time.sleep(5), then the loop goes round.
UpSleep ==
    /\ up_pc = "sleep"
    /\ up_pc' = "poll"
    /\ UNCHANGED <<up_statuses, up_result>>
    /\ UNCHANGED <<toolVars, UpRest>>

UpNext == UpStartFails \/ UpStart \/ UpPoll \/ UpPollRaises \/ UpSleep

UploadInit == ToolsIdle /\ AsIdle /\ MlIdle /\ CvIdle /\ UpInit /\ XmIdle

\* The call keeps running: whenever it has a next step it takes one.
SpecUpload == UploadInit /\ [][UpNext]_vars /\ WF_vars(UpNext)

----------------------------------------------------------------------------
(* The name of a keyframe, from PersonTracker.process_single_keyframe      *)
(* through generate_proposals_from_tracks to generate_xml_for_batch.  A    *)
(* string is the sequence of its characters.                               *)

\* The video ids: the stems of clip files.
VideoIds == UNION {[1..n -> {"a", "_"}] : n \in 1..MaxIdLen}

\* Values of middle_frame_idx.
FrameNumbers == {0, 12, 12345}

\* online_tracks of the frame, as (track_id, tlbr).
TrackLists ==
    { <<>>,
      <<[track_id |-> 1, bbox |-> <<1, 2, 3, 4>>]>>,
      <<[track_id |-> 1, bbox |-> <<1, 2, 3, 4>>],
        [track_id |-> 2, bbox |-> <<5, 6, 7, 8>>]>> }

DigitChar(d) == <<"0", "1", "2", "3", "4", "5", "6", "7", "8", "9">>[d + 1]

\* str(n) for n >= 0.
RECURSIVE Digits(_)
Digits(n) ==
    IF n < 10 THEN <<DigitChar(n)>>
    ELSE Append(Digits(n \div 10), DigitChar(n % 10))

\* f"{n:04d}": the digits of n, with zeros in front up to four characters.
RECURSIVE ZeroPad(_)
ZeroPad(digits) ==
    IF Len(digits) >= 4 THEN digits ELSE ZeroPad(<<"0">> \o digits)

\* person_tracker.py line 84: f"{video_id}_frame_{middle_frame_idx:04d}.jpg"
KeyframeName(video_id, idx) ==
    video_id \o <<"_", "f", "r", "a", "m", "e", "_">> \o ZeroPad(Digits(idx))
        \o <<".", "j", "p", "g">>

\* The parts of a string, from its first character and the parts of the
\* rest.
SplitOnto(ch, rest) ==
    IF ch = "_" THEN << <<>> >> \o rest
    ELSE << <<ch>> \o Head(rest) >> \o Tail(rest)

\* str.split('_')
RECURSIVE Split(_)
Split(str) ==
    IF str = <<>> THEN << <<>> >>
    ELSE SplitOnto(Head(str), Split(Tail(str)))

\* '_'.join(parts)
RECURSIVE Join(_)
Join(parts) ==
    IF parts = <<>> THEN <<>>
    ELSE IF Len(parts) = 1 THEN parts[1]
    ELSE parts[1] \o <<"_">> \o Join(Tail(parts))

\* parts[:-2]
AllButLastTwo(parts) ==
    IF Len(parts) <= 2 THEN <<>> ELSE SubSeq(parts, 1, Len(parts) - 2)

\* (faulty variant) the clip id is taken to be the first part of the name
ClipIdFirstPart(frame_name) == Split(frame_name)[1]

\* proposals_to_cvat.py line 78: '_'.join(frame_name.split('_')[:-2])
ClipIdOf(frame_name) == Join(AllButLastTwo(Split(frame_name)))

\* person_tracker.py lines 89-96: the records of the frame.
FrameRecords(video_id, idx, tracks) ==
    [k \in DOMAIN tracks |->
        [video_id |-> video_id, frame |-> KeyframeName(video_id, idx),
         track_id |-> tracks[k].track_id, bbox |-> tracks[k].bbox]]

\* create_proposals_from_tracks.py lines 40-51 on the records of one frame:
\* the table, a function of <<clip id, frame name>>, with the entries of the
\* records whose four values are truthy.
TableOf(records) ==
    LET kept == SelectSeq(records, LAMBDA d :
                    d.video_id # <<>> /\ d.frame # <<>> /\ d.bbox # <<>>
                        /\ d.track_id # 0)
    IN  IF kept = <<>> THEN <<>>
        ELSE <<kept[1].video_id, kept[1].frame>> :>
                [k \in DOMAIN kept |-> kept[k].bbox \o <<1, kept[k].track_id>>]

\* proposals_to_cvat.py line 79:
\* proposals_data.get(clip_id, {}).get(frame_name, [])
Lookup(table, clip_id, frame_name) ==
    IF <<clip_id, frame_name>> \in DOMAIN table
    THEN table[<<clip_id, frame_name>>] ELSE <<>>

\* Lines 85-90: the box of every detection, det[0:4].
BoxesOf(detections) ==
    [k \in DOMAIN detections |-> SubSeq(detections[k], 1, 4)]

XmInit ==
    /\ xm_pc = "start"
    /\ xm_video_id \in VideoIds
    /\ xm_frame_idx \in FrameNumbers
    /\ xm_tracks \in TrackLists
    /\ xm_records = <<>>
    /\ xm_table = <<>>
    /\ xm_clip_id = <<>>
    /\ xm_boxes = <<>>

\* person_tracker.py lines 83-101: the frame is named and its records are
\* written.
XmTrack ==
    /\ xm_pc = "start"
    /\ xm_records' = FrameRecords(xm_video_id, xm_frame_idx, xm_tracks)
    /\ xm_pc' = "tracked"
    /\ UNCHANGED <<xm_video_id, xm_frame_idx, xm_tracks, xm_table, xm_clip_id,
                   xm_boxes>>
    /\ UNCHANGED <<toolVars, XmRest>>

\* generate_proposals_from_tracks on the records.
XmAggregate ==
    /\ xm_pc = "tracked"
    /\ xm_table' = TableOf(xm_records)
    /\ xm_pc' = "aggregated"
    /\ UNCHANGED <<xm_video_id, xm_frame_idx, xm_tracks, xm_records, xm_clip_id,
                   xm_boxes>>
    /\ UNCHANGED <<toolVars, XmRest>>

\* generate_xml_for_batch, lines 63-93, on the keyframes of the table.
XmGenerate ==
    /\ xm_pc = "aggregated"
    /\ IF DOMAIN xm_table = {}
       THEN UNCHANGED <<xm_clip_id, xm_boxes>>
       ELSE \E key \in DOMAIN xm_table :
               /\ xm_clip_id' = ClipIdOf(key[2])
               /\ xm_boxes' = BoxesOf(Lookup(xm_table, ClipIdOf(key[2]), key[2]))
    /\ xm_pc' = "written"
    /\ UNCHANGED <<xm_video_id, xm_frame_idx, xm_tracks, xm_records, xm_table>>
    /\ UNCHANGED <<toolVars, XmRest>>

XmNext == XmTrack \/ XmAggregate \/ XmGenerate

NamingInit == ToolsIdle /\ AsIdle /\ MlIdle /\ CvIdle /\ UpIdle /\ XmInit

SpecNaming == NamingInit /\ [][XmNext]_vars

----------------------------------------------------------------------------
(* Properties of select_best_keyframe. *)

KfScored == kf_pc = "done" /\ kf_scores.confidence_scores # <<>>

KfCombined == CombinedScores(kf_scores.norm_motion, kf_scores.norm_conf)

KfDistance(idx) ==
    IF idx >= total_frames \div 2 THEN idx - total_frames \div 2
    ELSE total_frames \div 2 - idx

KfAllTie ==
    \A i, j \in DOMAIN KfCombined : CombinedSign(KfCombined[i], KfCombined[j]) = 0

\* C1: when all sampled candidates have the same combined score, the frame
\* index returned is a candidate index of least distance from
\* total_frames // 2 among all candidate indices, and it is the first such
\* candidate (so the same inputs give the same index on every run).
C1_TieReturnsClosestToMiddle ==
    (KfScored /\ KfAllTie /\ kf_result.kind = "tuple") =>
        /\ \E i \in DOMAIN candidate_indices : candidate_indices[i] = kf_result.index
        /\ \A j \in DOMAIN candidate_indices :
              KfDistance(kf_result.index) <= KfDistance(candidate_indices[j])
        /\ \A j \in DOMAIN candidate_indices :
              KfDistance(candidate_indices[j]) = KfDistance(kf_result.index)
                  => kf_result.best_idx <= j

C1_Witness ==
    /\ KfScored /\ KfAllTie /\ kf_result.kind = "tuple"
    /\ Len(candidate_frames_rgb) >= 3
    /\ kf_result.best_idx > 1
    /\ \E i \in DOMAIN kf_scores.confidence_scores :
          kf_scores.confidence_scores[i] > 0

\* C2: the call returns None, and raises nothing, whenever no candidate frame
\* can be sampled: the video does not open, the frame count is 0, the window
\* is empty, or no candidate frame can be read.
C2_NoCandidateReturnsNone ==
    (kf_pc = "done" /\ (~opened \/ total_frames = 0 \/ candidate_indices = <<>>
                        \/ candidate_frames_rgb = <<>>))
        => kf_result = ReturnNone

C2_Witness ==
    /\ kf_pc = "done" /\ opened /\ Len(candidate_indices) >= 2
    /\ candidate_frames_rgb = <<>> /\ kf_result = ReturnNone

KfAllEqual(scores) == \A i, j \in DOMAIN scores : scores[i] = scores[j]

KfAllZero(norm, scores) ==
    /\ Len(norm) = Len(scores)
    /\ \A i \in DOMAIN norm : norm[i].num = 0 /\ norm[i].rad = 1

\* C3: _z_normalize gives a vector of zeros as long as its input whenever
\* the scores have no spread (every candidate has the same score, or there
\* is one candidate); nothing is divided by the standard deviation then.
C3_ZNormalizeDegenerate ==
    KfScored =>
        /\ KfAllEqual(kf_scores.confidence_scores)
              => KfAllZero(kf_scores.norm_conf, kf_scores.confidence_scores)
        /\ KfAllEqual(kf_scores.motion_scores)
              => KfAllZero(kf_scores.norm_motion, kf_scores.motion_scores)

C3_Witness ==
    /\ KfScored
    /\ Len(kf_scores.confidence_scores) >= 2
    /\ kf_scores.confidence_scores[1] > 0
    /\ KfAllEqual(kf_scores.confidence_scores)
    /\ ~KfAllEqual(kf_scores.motion_scores)
    /\ KfAllZero(kf_scores.norm_conf, kf_scores.confidence_scores)

\* combined(x) exceeds combined(y) by more than 1e-6
KfExceeds(x, y) ==
    /\ CombinedSign(x, y) = 1
    /\ 1000000 >
          (WeightDen * GapDen(CombinedP(x, y), x.m.rad, CombinedQ(x, y), x.c.rad))
          \div GapNum(CombinedP(x, y), x.m.rad, CombinedQ(x, y), x.c.rad)

KfDominant(i) ==
    \A j \in DOMAIN KfCombined : j # i => KfExceeds(KfCombined[i], KfCombined[j])

\* C4: the tie-break term of every candidate lies in [0, 1e-6], and a
\* candidate whose combined score exceeds every other candidate's by more
\* than 1e-6 is the one returned.
C4_TieBreakKeepsWinner ==
    KfScored =>
        /\ \A j \in DOMAIN candidate_indices :
              /\ total_frames - 2 * KfDistance(candidate_indices[j]) >= 0
              /\ total_frames - 2 * KfDistance(candidate_indices[j]) <= total_frames
        /\ \A i \in DOMAIN KfCombined :
              (Len(KfCombined) >= 2 /\ KfDominant(i)) =>
                  /\ kf_result.kind = "tuple"
                  /\ kf_result.image = candidate_frames_rgb[i]

\* Whenever the call returns a tuple, the candidate returned is the one whose
\* combined score exceeds every other's by more than 1e-6, if there is one.
KfWinnerKeptWhenReturned ==
    (KfScored /\ kf_result.kind = "tuple") =>
        \A i \in DOMAIN KfCombined :
            (Len(KfCombined) >= 2 /\ KfDominant(i)) =>
                kf_result.image = candidate_frames_rgb[i]

\* C6: the call returns the candidate of maximal final score with its own
\* video frame index and exactly its person detections, numbered 1..k in
\* their order.
C6_ReturnsBestWithItsIndex ==
    (KfScored /\ kf_result.kind = "tuple") =>
        /\ \E i \in DOMAIN candidate_frames_rgb :
              /\ kf_result.image = candidate_frames_rgb[i]
              /\ kf_result.detections = FinalDetections(all_detections[i])
        /\ kf_result.index = kf_result.image

KfHalf == ((center_window_secs * (IF fps = 0 THEN 30 ELSE fps)) \div 2)

KfLo == IF total_frames \div 2 - KfHalf > 0 THEN total_frames \div 2 - KfHalf ELSE 0

KfHi == IF total_frames \div 2 + KfHalf < total_frames
        THEN total_frames \div 2 + KfHalf ELSE total_frames

\* C7: the candidate indices lie in [0, total_frames) and in the window of
\* half-width int(center_window_secs / 2 * fps) frames (fps 30 when reported
\* as 0) around total_frames // 2; they start at the window's first frame,
\* step by candidate_stride and fill the window.
C7_CandidateWindow ==
    (kf_pc # "start" /\ opened) =>
        /\ \A i \in DOMAIN candidate_indices :
              /\ 0 <= candidate_indices[i] /\ candidate_indices[i] < total_frames
              /\ total_frames \div 2 - KfHalf <= candidate_indices[i]
              /\ candidate_indices[i] < total_frames \div 2 + KfHalf
        /\ \A i \in DOMAIN candidate_indices :
              i > 1 => candidate_indices[i] - candidate_indices[i - 1] = candidate_stride
        /\ KfLo < KfHi =>
              /\ candidate_indices # <<>>
              /\ candidate_indices[1] = KfLo
              /\ candidate_indices[Len(candidate_indices)] + candidate_stride >= KfHi

C7_Witness ==
    /\ kf_pc # "start" /\ opened
    /\ Len(candidate_indices) >= 2
    /\ candidate_indices[1] > 0
    /\ candidate_indices[Len(candidate_indices)] < total_frames - 1

\* C24: whichever candidate reads fail, when at least one candidate was
\* read the call raises nothing, there is one final score per frame read,
\* and the index returned is the video index of the image and of the
\* detections returned.
C24_VectorsStayAligned ==
    (kf_pc = "done" /\ candidate_frames_rgb # <<>>) =>
        /\ kf_result.kind = "tuple"
        /\ Len(kf_scores.final_scores) = Len(candidate_frames_rgb)
        /\ kf_result.best_idx \in DOMAIN candidate_frames_rgb
        /\ kf_result.image = candidate_frames_rgb[kf_result.best_idx]
        /\ kf_result.index = kf_result.image
        /\ kf_result.detections =
              FinalDetections(all_detections[kf_result.best_idx])

----------------------------------------------------------------------------
(* Properties of the motion score. *)

MoPersons == {i \in DOMAIN mo_dets : mo_dets[i].class_id = 1}

MoUnion == UNION {BoxPixels(mo_dets[i].bbox) : i \in MoPersons}

\* C5 (as claimed): the motion score of a frame is the mean flow magnitude
\* over the union of its person boxes, against the preceding frame read; it
\* is 0 for the first frame and for a frame without a person detection.
C5_MeanOverUnion ==
    mo_pc = "done" =>
        IF mo_has_prev /\ MoUnion # {}
        THEN motion_score * Cardinality(MoUnion) = SumOver(mo_mag, MoUnion)
        ELSE motion_score = 0

MoBoxMeans ==
    [i \in DOMAIN mo_dets |->
        IF i \in MoPersons /\ BoxPixels(mo_dets[i].bbox) # {}
        THEN SumOver(mo_mag, BoxPixels(mo_dets[i].bbox))
                \div Cardinality(BoxPixels(mo_dets[i].bbox))
        ELSE 0]

\* C5 (amended): the motion score of a frame is the sum, over its person
\* boxes that hold a pixel, of the mean flow magnitude inside the box,
\* against the preceding frame read; it is 0 for the first frame and for a
\* frame without a person detection.
C5_SumOfBoxMeans ==
    mo_pc = "done" =>
        IF mo_has_prev
        THEN motion_score = SumOver(MoBoxMeans, DOMAIN mo_dets)
        ELSE motion_score = 0

C5_Witness ==
    /\ mo_pc = "done" /\ mo_has_prev
    /\ Cardinality(MoPersons) = 2
    /\ \A i \in MoPersons : BoxPixels(mo_dets[i].bbox) # {}
    /\ motion_score > 0
    /\ motion_score * Cardinality(MoUnion) # SumOver(mo_mag, MoUnion)

----------------------------------------------------------------------------
(* Properties of generate_proposals_from_tracks. *)

\* The record carries a clip id, a frame name, a bbox and a track id.
AgComplete(det) ==
    /\ det.video_id # None
    /\ det.frame # None
    /\ det.bbox # None
    /\ det.track_id # None

AgVideoIds == {r.video_id[1] : r \in {q \in Records : q.video_id # None}}

AgFrameNames == {r.frame[1] : r \in {q \in Records : q.frame # None}}

\* table[clip_id][frame_name], empty when the key is not there
AgTable(v, f) ==
    IF v \in DOMAIN results_dict /\ f \in DOMAIN results_dict[v]
    THEN results_dict[v][f]
    ELSE <<>>

AgEntry(det) ==
    <<det.bbox[1][1], det.bbox[1][2], det.bbox[1][3], det.bbox[1][4], 1,
      det.track_id[1]>>

\* The entries of the complete records of (v, f) among the events, in order.
RECURSIVE AgExpected(_, _, _)
AgExpected(events, v, f) ==
    IF events = <<>> THEN <<>>
    ELSE LET e == Head(events)
             rest == AgExpected(Tail(events), v, f)
         IN  IF /\ e.kind = "record"
                /\ AgComplete(e.det)
                /\ e.det.video_id = <<v>>
                /\ e.det.frame = <<f>>
             THEN <<AgEntry(e.det)>> \o rest
             ELSE rest

\* C8: every record that carries a clip id, a frame name, a bbox and a track
\* id adds exactly one entry [x1, y1, x2, y2, 1.0, track_id] to
\* table[clip_id][frame_name]; the entries of a list are in the order of the
\* input records and no entry is under any other key.
C8_OneEntryPerCompleteRecord ==
    /\ DOMAIN results_dict \subseteq AgVideoIds
    /\ \A v \in DOMAIN results_dict : DOMAIN results_dict[v] \subseteq AgFrameNames
    /\ \A v \in AgVideoIds, f \in AgFrameNames :
          AgTable(v, f) = AgExpected(ag_input, v, f)

\* The event is a malformed record or a file that could not be loaded.
AgBadInput(e) ==
    \/ e.kind = "record" /\ ~AgComplete(e.det)
    \/ e.kind = "file" /\ e.outcome # "ok"

AgAggregated(det) ==
    \E k \in DOMAIN AgTable(det.video_id[1], det.frame[1]) :
        AgTable(det.video_id[1], det.frame[1])[k] = AgEntry(det)

\* C9: a record with a missing field, or a file that cannot be read or
\* parsed, never aborts the batch, and every well-formed record met after it
\* is in the table.
C9_BadInputNeverAborts ==
    /\ ag_pc # "raised"
    /\ \A i, j \in DOMAIN ag_input :
          (/\ i < j
           /\ AgBadInput(ag_input[i])
           /\ ag_input[j].kind = "record"
           /\ AgComplete(ag_input[j].det))
              => AgAggregated(ag_input[j].det)

\* The records and files the function has passed over so far.
AgSkips ==
    {i \in DOMAIN ag_input :
        \/ /\ ag_input[i].kind = "record"
           /\ ~AgComplete(ag_input[i].det)
        \/ /\ ag_input[i].kind = "file"
           /\ ag_input[i].outcome \in CaughtErrors}

AgWarnings == {i \in DOMAIN ag_log : ag_log[i][1] = "warning"}

\* C10: every record and every file that the function skips leaves a log
\* entry (the function keeps no count).
C10_EverySkipLogged ==
    Cardinality(AgWarnings) >= Cardinality(AgSkips)


\* C11: a second call on the same detection lists ends with the table of
\* the first call and writes the same output: nothing of the first call is
\* carried over, no proposal is duplicated or accumulated.
C11_SecondRunSameTable ==
    (ag_run = 2 /\ ag_pc = "returned") =>
        /\ results_dict = ag_first.table
        /\ ag_pickle = ag_first.pickle

C11_Witness ==
    /\ ag_run = 2
    /\ ag_pc = "returned"
    /\ ag_pickle # <<>>
    /\ Len(AgTable("v1", "f1")) = 2

\* The number of proposals under the keys of the set.
RECURSIVE AgProposals(_)
AgProposals(keys) ==
    IF keys = {} THEN 0
    ELSE LET k == CHOOSE q \in keys : TRUE
         IN  Len(AgTable(k[1], k[2])) + AgProposals(keys \ {k})

\* The records met that carry all four fields.
AgCompleteMet ==
    {i \in DOMAIN ag_input :
        ag_input[i].kind = "record" /\ AgComplete(ag_input[i].det)}

\* C25: the table that the call returns holds as many proposals as the input
\* held records with a clip id, a frame name, a bbox and a track id, whatever
\* their values.
C25_NoCompleteRecordDropped ==
    ag_pc = "returned" =>
        AgProposals(AgVideoIds \X AgFrameNames) = Cardinality(AgCompleteMet)

----------------------------------------------------------------------------
(* Properties of the tracker. *)

TkRemoved == {i \in DOMAIN tk_tracks : tk_tracks[i].state = "Removed"}

\* C12: every track spawned gets a track_id greater than every id assigned
\* before it: no two tracks hold the same id and the id of a Removed track
\* is never assigned again.
C12_TrackIdsIncrease ==
    \A i, j \in DOMAIN tk_tracks :
        i < j => tk_tracks[i].track_id < tk_tracks[j].track_id

\* A track was Removed in an earlier frame and two tracks were spawned in
\* the last one.
C12_Witness ==
    /\ \E i \in DOMAIN tk_last.before : tk_last.before[i].state = "Removed"
    /\ Len(tk_tracks) >= Len(tk_last.before) + 2


\* The track at position i was matched to a detection in the last frame.
TkMatched(i) == \E p \in tk_last.matches : p[1] = i

\* C13: for every track that was not Removed before the last frame, its
\* time_since_update after the frame is 0 if the frame matched it to a
\* detection, and its previous value plus 1 otherwise.
C13_TimeSinceUpdate ==
    \A i \in DOMAIN tk_last.before :
        tk_last.before[i].state # "Removed" =>
            IF TkMatched(i)
            THEN tk_tracks[i].time_since_update = 0
            ELSE tk_tracks[i].time_since_update
                     = tk_last.before[i].time_since_update + 1

\* A track unmatched for several frames was matched in the last one.
C13_Witness ==
    \E i \in DOMAIN tk_last.before :
        /\ tk_last.before[i].state = "Lost"
        /\ tk_last.before[i].time_since_update >= 2
        /\ TkMatched(i)
        /\ tk_tracks[i].time_since_update = 0


TkReported == {tk_out[k].track_id : k \in DOMAIN tk_out}

\* The track was spawned in the frame before the last one and the last
\* frame left it unmatched.
TkSpuriousBefore(i) ==
    /\ tk_last.before[i].state = "Tentative"
    /\ tk_last.before[i].hits = 0
    /\ ~TkMatched(i)

\* The track was spawned and never matched.
TkNeverMatched(t) == t.hits = 0

TkSpuriousRemoved ==
    \A i \in DOMAIN tk_last.before :
        TkSpuriousBefore(i) => tk_tracks[i].state = "Removed"

TkNeverMatchedUnreported ==
    \A i \in DOMAIN tk_tracks :
        TkNeverMatched(tk_tracks[i]) =>
            /\ tk_tracks[i].state \in {"Tentative", "Removed"}
            /\ tk_tracks[i].track_id \notin TkReported

TkSpuriousStaysRemoved ==
    \A i \in DOMAIN tk_tracks :
        (TkNeverMatched(tk_tracks[i]) /\ tk_tracks[i].state = "Removed") =>
            /\ tk_tracks'[i] = tk_tracks[i]
            /\ tk_tracks[i].track_id \notin {tk_out'[k].track_id : k \in DOMAIN tk_out'}

\* C14: a track spawned in one frame and left unmatched in the next frame
\* is Removed in that next frame; it never becomes Confirmed and is in no
\* output of the tracker, then or later.
C14_SpuriousTrackPruned ==
    /\ [](TkSpuriousRemoved /\ TkNeverMatchedUnreported)
    /\ [][TkSpuriousStaysRemoved]_vars

\* A track spawned in the first frame was left unmatched in the second, and
\* the third frame brought a detection at its place.
C14_Witness ==
    /\ tk_frames = 3
    /\ Len(tk_tracks) >= 2
    /\ TkNeverMatched(tk_tracks[1])
    /\ tk_tracks[1].state = "Removed"
    /\ \E j \in DOMAIN tk_last.dets : tk_last.dets[j].bbox = tk_tracks[1].bbox


\* The tracks that hold detection j of the last frame after the frame: the
\* track matched to it, or the track spawned from it.
TkHolders(j) ==
    {n \in DOMAIN tk_tracks :
        \/ <<n, j>> \in tk_last.matches
        \/ /\ n > Len(tk_last.before)
           /\ j \in tk_last.unmatched_dets
           /\ tk_tracks[n].bbox = tk_last.dets[j].bbox}

\* Before the last frame the track had been Confirmed and then unmatched
\* for k frames in a row.
TkWasConfirmed(t) == t.hits >= ConfirmHits

\* A track unmatched for fewer frames than the buffer length and matched
\* in the last frame keeps its track_id and is reported with it.
TkKeepsId ==
    \A i \in DOMAIN tk_last.before :
        (/\ TkWasConfirmed(tk_last.before[i])
         /\ tk_last.before[i].time_since_update >= 1
         /\ tk_last.before[i].time_since_update < TrackBuffer
         /\ TkMatched(i))
            => /\ tk_tracks[i].track_id = tk_last.before[i].track_id
               /\ tk_tracks[i].state = "Confirmed"
               /\ tk_tracks[i].track_id \in TkReported

\* The id of a track unmatched for more frames than the buffer length is
\* not reported.
TkOldIdGone ==
    \A i \in DOMAIN tk_tracks :
        tk_tracks[i].time_since_update > TrackBuffer =>
            tk_tracks[i].track_id \notin TkReported

\* C15 (as claimed): a Confirmed track unmatched for fewer frames than the
\* buffer length and then matched keeps its track_id; after more unmatched
\* frames than the buffer length a detection at its place is given a new
\* track_id and the old id is not reported again.
C15_BufferRecovery ==
    /\ TkKeepsId
    /\ TkOldIdGone
    /\ \A i \in DOMAIN tk_last.before, j \in DOMAIN tk_last.dets :
          (/\ TkWasConfirmed(tk_last.before[i])
           /\ tk_last.before[i].time_since_update > TrackBuffer
           /\ tk_last.dets[j].bbox = tk_last.before[i].bbox)
              => /\ TkHolders(j) # {}
                 /\ \A n \in TkHolders(j) :
                       tk_tracks[n].track_id > tk_last.before[i].track_id

\* C15 (amended): the same, for a reappearing detection of high confidence
\* (a score of the track threshold or more).
C15_BufferRecoveryHigh ==
    /\ TkKeepsId
    /\ TkOldIdGone
    /\ \A i \in DOMAIN tk_last.before, j \in DOMAIN tk_last.dets :
          (/\ TkWasConfirmed(tk_last.before[i])
           /\ tk_last.before[i].time_since_update > TrackBuffer
           /\ tk_last.dets[j].bbox = tk_last.before[i].bbox
           /\ tk_last.dets[j].score >= TrackThresh)
              => /\ TkHolders(j) # {}
                 /\ \A n \in TkHolders(j) :
                       tk_tracks[n].track_id > tk_last.before[i].track_id

\* A Confirmed track went unmatched for more frames than the buffer length
\* and the last frame brought a high-confidence detection at its place.
C15_Witness ==
    \E i \in DOMAIN tk_last.before, j \in DOMAIN tk_last.dets :
        /\ TkWasConfirmed(tk_last.before[i])
        /\ tk_last.before[i].time_since_update > TrackBuffer
        /\ tk_last.dets[j].bbox = tk_last.before[i].bbox
        /\ tk_last.dets[j].score >= TrackThresh
        /\ Len(tk_tracks) = Len(tk_last.before) + 1


\* The tracks that took part in the association of the last frame.
TkActiveBefore ==
    {i \in DOMAIN tk_last.before : tk_last.before[i].state # "Removed"}

\* The detections of the last frame with a score below the track threshold.
TkLowDets ==
    {j \in DOMAIN tk_last.dets : tk_last.dets[j].score < TrackThresh}

\* C16: the first pass matches high-confidence detections only, a
\* low-confidence detection is matched only to a track the first pass left
\* unmatched, each track and each detection is in at most one match, and
\* the tracks and detections in no match are exactly the unmatched ones.
C16_CascadedPasses ==
    /\ tk_last.first \subseteq tk_last.matches
    /\ \A p \in tk_last.first : p[2] \notin TkLowDets
    /\ \A p \in tk_last.matches :
          p[2] \in TkLowDets =>
              /\ p \notin tk_last.first
              /\ \A q \in tk_last.first : q[1] # p[1]
    /\ \A p, q \in tk_last.matches :
          (p[1] = q[1] \/ p[2] = q[2]) => p = q
    /\ \A p \in tk_last.matches :
          p[1] \in TkActiveBefore /\ p[2] \in DOMAIN tk_last.dets
    /\ tk_last.unmatched_tracks =
          TkActiveBefore \ {p[1] : p \in tk_last.matches}
    /\ tk_last.unmatched_dets =
          DOMAIN tk_last.dets \ {p[2] : p \in tk_last.matches}

\* Both passes matched in the last frame: one track took a high-confidence
\* detection and another track a low-confidence one.
C16_Witness ==
    \E p \in tk_last.first, q \in tk_last.matches \ tk_last.first :
        /\ p[1] # q[1]
        /\ q[2] \in TkLowDets


\* A track whose time_since_update exceeds the buffer length is Removed.
TkPastBufferRemoved ==
    \A i \in DOMAIN tk_tracks :
        tk_tracks[i].time_since_update > TrackBuffer =>
            tk_tracks[i].state = "Removed"

\* No track that was Removed before the last frame was matched in it, and
\* no Removed track is in the output of the last frame.
TkRemovedLeftAlone ==
    /\ \A p \in tk_last.matches : tk_last.before[p[1]].state # "Removed"
    /\ \A i \in TkRemoved : tk_tracks[i].track_id \notin TkReported

\* A Removed track is the same after every later frame.
TkRemovedFrozen ==
    \A i \in TkRemoved :
        /\ i \in DOMAIN tk_tracks'
        /\ tk_tracks'[i] = tk_tracks[i]

\* C17: a track is Removed once its time_since_update exceeds the buffer
\* length; a Removed track never changes again, is never matched to a
\* detection and is in no later output.
C17_RemovedIsTerminal ==
    [](TkPastBufferRemoved /\ TkRemovedLeftAlone) /\ [][TkRemovedFrozen]_vars

\* A Confirmed track was removed for exceeding the buffer length, and the
\* last frame held a detection at its place.
C17_Witness ==
    \E i \in DOMAIN tk_last.before, j \in DOMAIN tk_last.dets :
        /\ tk_last.before[i].state = "Removed"
        /\ tk_last.before[i].time_since_update > TrackBuffer
        /\ tk_last.dets[j].bbox = tk_last.before[i].bbox
        /\ tk_tracks[i] = tk_last.before[i]


\* The detector's answer for the last frame holds no person detection with
\* a score of conf or more.
TkNoPersonSeen ==
    /\ tk_frames >= 1
    /\ \A k \in DOMAIN tk_last.raw :
          ~(/\ tk_last.raw[k].class_id = TkPersonClassId
            /\ tk_last.raw[k].score >= tk_conf)

\* C18: a frame without a person detection above the threshold reaches the
\* tracker as an empty detection set; every track that was not Removed goes
\* unmatched (its time_since_update grows by one), no track is spawned and
\* the run goes on.
C18_EmptyFrameIsNormal ==
    TkNoPersonSeen =>
        /\ tk_last.dets = <<>>
        /\ tk_last.matches = {}
        /\ tk_last.unmatched_tracks = TkActiveBefore
        /\ Len(tk_tracks) = Len(tk_last.before)
        /\ tk_next_id = 1 + Len(tk_last.before)
        /\ \A i \in TkActiveBefore :
              tk_tracks[i].time_since_update =
                  tk_last.before[i].time_since_update + 1
        /\ tk_pc = "run"

\* The detector answered with detections, none of them a person above the
\* threshold, while the tracker held a track.
C18_Witness ==
    /\ TkNoPersonSeen
    /\ tk_last.raw # <<>>
    /\ TkActiveBefore # {}


\* The frames processed so far are the first k frames of the scenario.
TkScenarioUpTo(k) == tk_history = SubSeq(ScenarioFrames, 1, k)

\* C19: on the three frames of the scenario a fresh tracker holds one track
\* with track_id 1 after each frame; after frame 3 the track is Confirmed at
\* the third box with time_since_update 0, and it is the one track reported.
C19_OneConfirmedTrack ==
    /\ \A k \in DOMAIN ScenarioFrames :
          TkScenarioUpTo(k) =>
              /\ Len(tk_tracks) = 1
              /\ tk_tracks[1].track_id = 1
              /\ tk_tracks[1].bbox = ScenarioFrames[k][1].bbox
    /\ TkScenarioUpTo(Len(ScenarioFrames)) =>
          /\ tk_tracks[1].state = "Confirmed"
          /\ tk_tracks[1].time_since_update = 0
          /\ Len(tk_out) = 1
          /\ tk_out[1].track_id = 1
          /\ tk_out[1].bbox = <<14, 12, 54, 52>>

\* The three frames of the scenario were processed, in order, by a fresh
\* tracker.
C19_Witness ==
    /\ TkScenarioUpTo(Len(ScenarioFrames))
    /\ tk_frames = Len(ScenarioFrames)
    /\ tk_last.matches = {<<1, 1>>}


----------------------------------------------------------------------------
(* Properties of run_pipeline. *)

\* C20: when run_pipeline is over, every clip of stage 4 has had a
\* PersonTracker of its own constructed for it, and no PersonTracker has
\* received frames of a clip other than its own.
C20_PrivateTrackerPerClip ==
    /\ pl_pc \in {"returned", "raised"} /\ pl_stage >= 3 =>
          /\ Len(pl_trackers) = Len(pl_clips)
          /\ \A k \in DOMAIN pl_clips : pl_trackers[k].video_id = pl_clips[k]
    /\ \A k \in DOMAIN pl_trackers :
          pl_trackers[k].clips \subseteq {pl_trackers[k].video_id}


\* run_pipeline is over: it returned or an exception left it.
PlOver == pl_pc \in {"returned", "raised"}

\* The logger received the S3 upload error.
PlUploadFailed == \E k \in DOMAIN pl_log : pl_log[k] = "error"

PlRaisedInStageFour ==
    /\ pl_pc = "raised"
    /\ pl_stage = 3
    /\ pl_exc = "AttributeError"
    /\ ~pl_work_dir

----------------------------------------------------------------------------
(* Properties of select_annotators_for_batch. *)

\* C21: an empty all_annotators raises ValueError; otherwise the call returns
\* min(num_required, len(all_annotators)) usernames, each the name at a
\* position of all_annotators, and no position is taken twice.
C21_SelectsDistinctPositions ==
    /\ (as_pc \in {"returned", "raised"} /\ as_all = <<>>) => as_pc = "raised"
    /\ (as_pc \in {"returned", "raised"} /\ as_all # <<>>) =>
          /\ as_pc = "returned"
          /\ Len(as_selected) = NumToSelect(as_required, Len(as_all))
          /\ Len(as_positions) = Len(as_selected)
          /\ \A k \in DOMAIN as_selected :
                /\ as_positions[k] \in DOMAIN as_all
                /\ as_selected[k] = as_all[as_positions[k]]
          /\ \A i, j \in DOMAIN as_positions :
                i # j => as_positions[i] # as_positions[j]

\* Two of three annotators were asked for and returned.
C21_Witness ==
    /\ as_pc = "returned"
    /\ Len(as_all) = 3
    /\ as_required = 2
    /\ Len(as_selected) = 2


----------------------------------------------------------------------------
(* Properties of log_metric. *)

\* C22: no two records of the metrics file with the same event type and the
\* same extra were written by calls less than 5 seconds apart.
C22_NoDuplicateWithinFiveSeconds ==
    \A i, j \in DOMAIN ml_file :
        (/\ i < j
         /\ ml_file[i].event_type = ml_file[j].event_type
         /\ ml_file[i].extra = ml_file[j].extra)
            => ml_file[j].timestamp - ml_file[i].timestamp >= 5

\* C29: every key of _seen_events has its record in the metrics file.
C29_SeenKeysWereWritten ==
    \A key \in ml_seen :
        \E k \in DOMAIN ml_file :
            /\ ml_file[k].event_type = key.event_type
            /\ ml_file[k].extra = key.extra_str
            /\ ml_file[k].timestamp \div BucketSecs = key.time_bucket


----------------------------------------------------------------------------
(* Properties of create_batch_task_with_multiple_jobs. *)

\* The step of the call that a request belongs to.
CvStep(kind) ==
    CASE kind = "create_task" -> 1
      [] kind = "upload_data" -> 2
      [] kind = "import_annotations" -> 3
      [] OTHER -> 4

CvSent(kind) == \E k \in DOMAIN cv_requests : cv_requests[k].kind = kind

CvOver == cv_pc \in {"returned", "raised"}

\* C23: the requests are sent in the order create task, upload data, import
\* annotations, job assignment, each only after the one before it; with an
\* empty annotator list, a failed task creation or a failed upload the call
\* returns None and nothing of the job assignment is sent; a failed import
\* of the annotations is followed by the job assignment all the same.
C23_StepsInOrder ==
    /\ \A i, j \in DOMAIN cv_requests :
          i < j => CvStep(cv_requests[i].kind) <= CvStep(cv_requests[j].kind)
    /\ \A i, j \in DOMAIN cv_requests :
          (i # j /\ CvStep(cv_requests[i].kind) < 4) =>
              cv_requests[i].kind # cv_requests[j].kind
    /\ CvSent("upload_data") => CvSent("create_task")
    /\ CvSent("import_annotations") => CvSent("upload_data")
    /\ (\E k \in DOMAIN cv_requests : CvStep(cv_requests[k].kind) = 4) =>
          CvSent("import_annotations")
    /\ cv_failed # "none" =>
          /\ cv_failed \in {"empty", "create_task", "upload_data"}
          /\ cv_pc = "returned"
          /\ cv_result = "None"
          /\ \A k \in DOMAIN cv_requests : CvStep(cv_requests[k].kind) < 4
          /\ cv_assigned = <<>>
    /\ (cv_failed = "empty") = (cv_annotators = <<>> /\ cv_pc = "returned")
    /\ (CvOver /\ ~cv_import_ok) =>
          /\ CvSent("list_jobs")
          /\ cv_failed = "none"
          /\ cv_pc = "returned" =>
                cv_result = "dict" /\ Len(cv_outcomes) = Len(cv_annotators)

\* The import of the annotations failed and a job was assigned afterwards.
C23_Witness ==
    /\ cv_pc = "returned"
    /\ ~cv_import_ok
    /\ cv_assigned # <<>>
    /\ CvSent("assign_job")

\* The entries that the outcomes of the annotators taken so far call for.
RECURSIVE CvEntries(_)
CvEntries(n) ==
    IF n = 0 THEN <<>>
    ELSE IF cv_outcomes[n].assigned
         THEN Append(CvEntries(n - 1),
                     [job_id |-> cv_outcomes[n].job, annotator |-> cv_annotators[n]])
         ELSE CvEntries(n - 1)

\* C30: assigned_jobs holds, in the order of the list, one entry for each
\* annotator whose assignment the server acknowledged and none for the
\* others; the first annotator's job is the existing job of the task, a later
\* annotator's job is one created for it; and when the call returns a result
\* every annotator of the list has been taken.
C30_AssignedJobs ==
    /\ cv_assigned = CvEntries(Len(cv_outcomes))
    /\ \A n \in DOMAIN cv_outcomes :
          /\ cv_outcomes[n].assigned =>
                /\ cv_outcomes[n].found
                /\ cv_outcomes[n].job \in cv_jobs
                /\ <<cv_outcomes[n].job, UserId(cv_annotators[n])>> \in cv_acks
                /\ (n = 1) = (cv_outcomes[n].job = cv_first_job)
          /\ \A k \in DOMAIN cv_outcomes :
                (k # n /\ cv_outcomes[n].assigned /\ cv_outcomes[k].assigned) =>
                    cv_outcomes[k].job # cv_outcomes[n].job
    /\ \A k \in DOMAIN cv_assigned :
          \E u \in {UserId(cv_assigned[k].annotator)} :
              <<cv_assigned[k].job_id, u>> \in cv_acks
    /\ cv_result = "dict" => Len(cv_outcomes) = Len(cv_annotators)

\* The call returned a result in which the second of three annotators, whose
\* assignment failed, has no entry and the third has one.
C30_Witness ==
    /\ cv_result = "dict"
    /\ Len(cv_annotators) = 3
    /\ cv_outcomes[1].assigned
    /\ ~cv_outcomes[2].assigned
    /\ cv_outcomes[3].assigned
    /\ Len(cv_assigned) = 2


----------------------------------------------------------------------------
(* Properties of upload_data_to_task. *)

UpLastStatus ==
    IF up_statuses = <<>> THEN "None" ELSE up_statuses[Len(up_statuses)]

\* C28: the call returns in the end, whatever statuses the server reports;
\* it returns True only after a poll that reported "finished", and a poll
\* that reported "failed" makes it return False.
C28_UploadReturns ==
    /\ <>(up_pc = "returned")
    /\ [](up_result = "True" => UpLastStatus = "finished")
    /\ [](UpLastStatus = "failed" => up_pc = "returned" /\ up_result = "False")


----------------------------------------------------------------------------
(* Properties of the keyframe name. *)

XmName == KeyframeName(xm_video_id, xm_frame_idx)

\* C26: the clip id derived from the name of a keyframe is the video id the
\* name was built from, and the boxes written for the image are the boxes of
\* the proposals stored under table[video_id][keyframe_name].
C26_ClipIdRoundTrip ==
    /\ xm_pc # "idle" => ClipIdOf(XmName) = xm_video_id
    /\ (xm_pc = "written" /\ DOMAIN xm_table # {}) =>
          /\ xm_clip_id = xm_video_id
          /\ DOMAIN xm_table = {<<xm_video_id, XmName>>}
          /\ xm_boxes = BoxesOf(xm_table[<<xm_video_id, XmName>>])
          /\ xm_boxes = [k \in DOMAIN xm_tracks |-> xm_tracks[k].bbox]

\* The image of a keyframe of a video whose id holds an underscore was
\* written with its two boxes.
C26_Witness ==
    /\ xm_pc = "written"
    /\ \E k \in DOMAIN xm_video_id : xm_video_id[k] = "_"
    /\ Len(xm_boxes) = 2

============================================================================
